---- MODULE Spec2Model ----
(***************************************************************************)
(* Model of the validation engine of video-automation-studio               *)
(* (src/src/validators/index.ts) and of the services around it.            *)
(*                                                                         *)
(* The validators are pure functions.  Each is an operator computed the    *)
(* way the source computes it; a call is a two-step behaviour: Init draws  *)
(* the arguments of one call, the Call* action applies the validator and   *)
(* stores what it returned.                                                *)
(*                                                                         *)
(* JavaScript values are tagged records ([kind |-> ...]).  A string is the *)
(* sequence of its characters.  A number of seconds is an integer count of *)
(* ticks, TicksPerSec ticks to the second.                                 *)
(***************************************************************************)
EXTENDS Integers, Sequences, FiniteSets, TLC

VARIABLES
    op,         \* the validator being called
    argUnit,      \* validateSlideUnit: the SlideUnit passed as unit
    argTemplate,  \* validateSlideUnit: the TemplateDef passed as template
    slides,     \* validateSlideSpec: SlideUnit[]
    templates,  \* validateSlideSpec: TemplateDef[]
    section,    \* validateSection: Section
    timings,    \* validateSpeechDensity / validateTimingSync: Timing[]
    textMap,    \* validateSpeechDensity: Map<string, string>
    sections,   \* generateTimings: Section[]
    response,   \* planSlides: what the LLM answered to the slidespec prompt
    savedSpecs, \* the slide-spec file of the script in storage
    warnLog,    \* the messages passed to logger.warn
    script,       \* the Script handed to the script service by the last operation
    scriptStore,  \* the script file in storage
    sectionStore, \* the sections file of the script in storage
    llmPrompts,   \* the tasks of the LLM requests the last operation made
    jobs,       \* the render-job files in storage, by job id
    calls,      \* the calls of the render-job service, by arrival
    execs,      \* the background executeRender of each start call
    pc,         \* "ready" before the call, "done" after it returned
    result      \* what the call returned

vars ==
    <<op, argUnit, argTemplate, slides, templates, section, timings, textMap,
      sections, response, savedSpecs, warnLog, script, scriptStore, sectionStore,
      llmPrompts, jobs, calls, execs, pc, result>>

\* the arguments of the direct calls of the validators and of generateTimings
callArgs == <<argUnit, argTemplate, slides, section, timings, textMap, sections>>

\* what the script service and the API routes read and write
serviceVars == <<script, scriptStore, sectionStore, llmPrompts>>

\* what the render-job service reads and writes
renderVars == <<jobs, calls, execs>>

----------------------------------------------------------------------------
(* Bounds                                                                  *)

MaxSlides == 2
MaxTimings == 2
MaxIntents == 2

----------------------------------------------------------------------------
(* JavaScript values                                                       *)

Undefined == [kind |-> "undefined"]
Null == [kind |-> "null"]
Str(cs) == [kind |-> "string", chars |-> cs]
Num(n) == [kind |-> "number", num |-> n]
Arr(xs) == [kind |-> "array", items |-> xs]

NL == "\n"

\* the string of n characters "a"
Text(n) == Str([i \in 1..n |-> "a"])

\* typeof value === "string"
IsString(v) == v.kind = "string"

\* Array.isArray(value)
IsArray(v) == v.kind = "array"

\* value.length: defined for strings and arrays, undefined for other scalars
HasLength(v) == v.kind \in {"string", "array"}
length(v) == IF v.kind = "string" THEN Len(v.chars) ELSE Len(v.items)

\* !value for a value that is a string or undefined: "" and undefined are falsy
Falsy(v) ==
    \/ v.kind \in {"undefined", "null"}
    \/ v.kind = "string" /\ Len(v.chars) = 0
    \/ v.kind = "number" /\ v.num = 0

RECURSIVE ConcatAll(_)
ConcatAll(ss) == IF ss = <<>> THEN <<>> ELSE Head(ss) \o ConcatAll(Tail(ss))

\* all sequences over S of length at most n
SeqsUpTo(S, n) == UNION {[1..k -> S] : k \in 0..n}

----------------------------------------------------------------------------
(* Numbers of seconds                                                      *)

TicksPerSec == 10

SPEECH_DENSITY == [MIN |-> 12, MAX |-> 28]

\* the decimal digits of n, at least w of them
RECURSIVE Digits(_, _)
Digits(n, w) ==
    IF w <= 1 /\ n < 10 THEN ToString(n)
    ELSE Digits(n \div 10, w - 1) \o ToString(n % 10)

\* (num/den).toFixed(2) for a rational num/den with den > 0
toFixed2(num, den) ==
    LET a == IF num < 0 THEN -num ELSE num
        h == (2 * 100 * a + den) \div (2 * den)   \* hundredths, half rounds up
    IN  (IF num < 0 /\ h > 0 THEN "-" ELSE "")
            \o ToString(h \div 100) \o "." \o Digits(h % 100, 2)

\* String(n) for a number n of seconds held as t ticks: `${duration}`
secToString(t) ==
    LET a == IF t < 0 THEN -t ELSE t
        frac == ((a % TicksPerSec) * 10) \div TicksPerSec
    IN  (IF t < 0 THEN "-" ELSE "") \o ToString(a \div TicksPerSec)
            \o (IF frac = 0 THEN "" ELSE "." \o ToString(frac))

----------------------------------------------------------------------------
(* validateSpeechDensity                                                   *)

MissingTextWarning(timing) ==
    [code |-> "MISSING_TEXT",
     message |-> "No text found for lineId: " \o timing.lineId,
     field |-> "lineId",
     context |-> [lineId |-> timing.lineId]]

InvalidDurationError(timing, duration) ==
    [code |-> "INVALID_DURATION",
     message |-> "Invalid duration for lineId " \o timing.lineId
                 \o ": " \o secToString(duration),
     field |-> "duration",
     context |-> [lineId |-> timing.lineId, duration |-> duration]]

\* charsPerSec is the rational cpsNum / cpsDen, cpsDen > 0
SpeechTooSlowWarning(timing, cpsNum, cpsDen) ==
    [code |-> "SPEECH_TOO_SLOW",
     message |-> "Speech density too low: " \o toFixed2(cpsNum, cpsDen)
                 \o " < " \o ToString(SPEECH_DENSITY.MIN),
     field |-> "timing",
     context |-> [lineId |-> timing.lineId,
                  charsPerSec |-> toFixed2(cpsNum, cpsDen)]]

SpeechTooFastWarning(timing, cpsNum, cpsDen) ==
    [code |-> "SPEECH_TOO_FAST",
     message |-> "Speech density too high: " \o toFixed2(cpsNum, cpsDen)
                 \o " > " \o ToString(SPEECH_DENSITY.MAX),
     field |-> "timing",
     context |-> [lineId |-> timing.lineId,
                  charsPerSec |-> toFixed2(cpsNum, cpsDen)]]

\* charsPerSec = text.length / duration against the band, duration > 0 ticks
DensityWarnings(timing, text, duration) ==
    LET cpsNum == length(text) * TicksPerSec
        cpsDen == duration
    IN  (IF cpsNum < SPEECH_DENSITY.MIN * cpsDen
         THEN <<SpeechTooSlowWarning(timing, cpsNum, cpsDen)>> ELSE <<>>)
        \o
        (IF cpsNum > SPEECH_DENSITY.MAX * cpsDen
         THEN <<SpeechTooFastWarning(timing, cpsNum, cpsDen)>> ELSE <<>>)

\* mutant: the duration is taken as startSec - endSec
DensityFindings_ReversedDuration(timing, tm) ==
    LET text == tm[timing.lineId]
        duration == timing.startSec - timing.endSec
    IN  IF Falsy(text)
        THEN [errors |-> <<>>, warnings |-> <<MissingTextWarning(timing)>>]
        ELSE IF duration <= 0
        THEN [errors |-> <<InvalidDurationError(timing, duration)>>, warnings |-> <<>>]
        ELSE [errors |-> <<>>, warnings |-> DensityWarnings(timing, text, duration)]

\* the findings of one timing: what the forEach callback pushes
DensityFindings(timing, tm) ==
    LET text == tm[timing.lineId]
        duration == timing.endSec - timing.startSec
    IN  IF Falsy(text)
        THEN [errors |-> <<>>, warnings |-> <<MissingTextWarning(timing)>>]
        ELSE IF duration <= 0
        THEN [errors |-> <<InvalidDurationError(timing, duration)>>, warnings |-> <<>>]
        ELSE [errors |-> <<>>, warnings |-> DensityWarnings(timing, text, duration)]

\* mutant: a warning makes the result invalid too
validateSpeechDensity_WarningsInvalidate(ts, tm) ==
    LET errors == ConcatAll([i \in 1..Len(ts) |-> DensityFindings(ts[i], tm).errors])
        warnings == ConcatAll([i \in 1..Len(ts) |-> DensityFindings(ts[i], tm).warnings])
    IN  [valid |-> Len(errors) = 0 /\ Len(warnings) = 0,
         errors |-> errors, warnings |-> warnings]

validateSpeechDensity(ts, tm) ==
    LET errors == ConcatAll([i \in 1..Len(ts) |-> DensityFindings(ts[i], tm).errors])
        warnings == ConcatAll([i \in 1..Len(ts) |-> DensityFindings(ts[i], tm).warnings])
    IN  [valid |-> Len(errors) = 0, errors |-> errors, warnings |-> warnings]

----------------------------------------------------------------------------
(* validateTimingSync                                                      *)

LargeGapSec == 1

TimingOverlapError(current, next, currentEnd) ==
    [code |-> "TIMING_OVERLAP",
     message |-> "Timing overlap detected between "
                 \o current.lineId \o " and " \o next.lineId,
     field |-> "timings",
     context |-> [currentId |-> current.lineId,
                  nextId |-> next.lineId,
                  currentEnd |-> currentEnd,
                  nextStart |-> next.startSec]]

LargeGapWarning(current, next, gap) ==
    [code |-> "LARGE_GAP",
     message |-> "Large gap detected: " \o toFixed2(gap, TicksPerSec)
                 \o "s between " \o current.lineId \o " and " \o next.lineId,
     field |-> "timings",
     context |-> [currentId |-> current.lineId,
                  nextId |-> next.lineId,
                  gap |-> toFixed2(gap, TicksPerSec)]]

\* mutant: an utterance that starts exactly at currentEnd overlaps (>=)
SyncFindings_OverlapOnEqual(current, next) ==
    LET currentEnd == current.endSec + current.gapAfterSec
        gap == next.startSec - currentEnd
    IN  [errors |->
            IF currentEnd >= next.startSec
            THEN <<TimingOverlapError(current, next, currentEnd)>> ELSE <<>>,
         warnings |->
            IF gap > LargeGapSec * TicksPerSec
            THEN <<LargeGapWarning(current, next, gap)>> ELSE <<>>]

\* mutant: a gap of exactly one second is large (>=)
SyncFindings_GapOnEqual(current, next) ==
    LET currentEnd == current.endSec + current.gapAfterSec
        gap == next.startSec - currentEnd
    IN  [errors |->
            IF currentEnd > next.startSec
            THEN <<TimingOverlapError(current, next, currentEnd)>> ELSE <<>>,
         warnings |->
            IF gap >= LargeGapSec * TicksPerSec
            THEN <<LargeGapWarning(current, next, gap)>> ELSE <<>>]

\* one iteration of the loop, on current = timings[i] and next = timings[i + 1]
SyncFindings(current, next) ==
    LET currentEnd == current.endSec + current.gapAfterSec
        gap == next.startSec - currentEnd
    IN  [errors |->
            IF currentEnd > next.startSec
            THEN <<TimingOverlapError(current, next, currentEnd)>> ELSE <<>>,
         warnings |->
            IF gap > LargeGapSec * TicksPerSec
            THEN <<LargeGapWarning(current, next, gap)>> ELSE <<>>]

\* mutant: every entry is compared with every later entry, not only the next
validateTimingSync_AllPairs(ts) ==
    LET later(i) == [j \in 1..(Len(ts) - i) |-> ts[i + j]]
        errors ==
            ConcatAll([i \in 1..(Len(ts) - 1) |->
                ConcatAll([j \in 1..Len(later(i)) |->
                    SyncFindings(ts[i], later(i)[j]).errors])])
        warnings ==
            ConcatAll([i \in 1..(Len(ts) - 1) |->
                ConcatAll([j \in 1..Len(later(i)) |->
                    SyncFindings(ts[i], later(i)[j]).warnings])])
    IN  [valid |-> Len(errors) = 0, errors |-> errors, warnings |-> warnings]

validateTimingSync(ts) ==
    LET errors ==
            ConcatAll([i \in 1..(Len(ts) - 1) |-> SyncFindings(ts[i], ts[i + 1]).errors])
        warnings ==
            ConcatAll([i \in 1..(Len(ts) - 1) |-> SyncFindings(ts[i], ts[i + 1]).warnings])
    IN  [valid |-> Len(errors) = 0, errors |-> errors, warnings |-> warnings]

----------------------------------------------------------------------------
(* validateSection                                                         *)

SectionMinChars == 300
SectionMaxChars == 600

validIntents ==
    <<"summary", "procedure", "caution", "tip", "example", "intro", "conclusion">>

\* validIntents.includes(intent)
includes(seq, x) == \E i \in 1..Len(seq) : seq[i] = x

SectionTooShortWarning(sec) ==
    [code |-> "SECTION_TOO_SHORT",
     message |-> "Section text is shorter than recommended: "
                 \o ToString(length(sec.text)) \o " < 300",
     field |-> "text",
     context |-> [sectionId |-> sec.id, length |-> length(sec.text)]]

SectionTooLongWarning(sec) ==
    [code |-> "SECTION_TOO_LONG",
     message |-> "Section text is longer than recommended: "
                 \o ToString(length(sec.text)) \o " > 600",
     field |-> "text",
     context |-> [sectionId |-> sec.id, length |-> length(sec.text)]]

\* mutant: the recommended lengths 300 and 600 are themselves flagged
SectionLengthWarnings_Inclusive(sec) ==
    (IF length(sec.text) <= SectionMinChars
     THEN <<SectionTooShortWarning(sec)>> ELSE <<>>)
    \o
    (IF length(sec.text) >= SectionMaxChars
     THEN <<SectionTooLongWarning(sec)>> ELSE <<>>)

SectionLengthWarnings(sec) ==
    (IF length(sec.text) < SectionMinChars
     THEN <<SectionTooShortWarning(sec)>> ELSE <<>>)
    \o
    (IF length(sec.text) > SectionMaxChars
     THEN <<SectionTooLongWarning(sec)>> ELSE <<>>)

\* mutant: an unknown tag is reported once, at its first occurrence
SectionIntentWarnings_Dedup(sec) ==
    IF Falsy(sec.intents) THEN <<>>
    ELSE ConcatAll([i \in 1..Len(sec.intents.items) |->
            IF /\ ~includes(validIntents, sec.intents.items[i])
               /\ \A j \in 1..(i - 1) : sec.intents.items[j] # sec.intents.items[i]
            THEN <<[code |-> "INVALID_INTENT",
                    message |-> "Unknown intent type: " \o sec.intents.items[i],
                    field |-> "intents",
                    context |-> [sectionId |-> sec.id,
                                 intent |-> sec.intents.items[i]]]>>
            ELSE <<>>])

\* section.intents is optional: Undefined, or a sequence of tags
SectionIntentWarnings(sec) ==
    IF Falsy(sec.intents) THEN <<>>
    ELSE ConcatAll([i \in 1..Len(sec.intents.items) |->
            IF ~includes(validIntents, sec.intents.items[i])
            THEN <<[code |-> "INVALID_INTENT",
                    message |-> "Unknown intent type: " \o sec.intents.items[i],
                    field |-> "intents",
                    context |-> [sectionId |-> sec.id,
                                 intent |-> sec.intents.items[i]]]>>
            ELSE <<>>])

\* mutant: an unknown intent is pushed to errors
validateSection_IntentErrors(sec) ==
    LET errors == SectionIntentWarnings(sec)
        warnings == SectionLengthWarnings(sec)
    IN  [valid |-> Len(errors) = 0, errors |-> errors, warnings |-> warnings]

validateSection(sec) ==
    LET errors == <<>>
        warnings == SectionLengthWarnings(sec) \o SectionIntentWarnings(sec)
    IN  [valid |-> Len(errors) = 0, errors |-> errors, warnings |-> warnings]

----------------------------------------------------------------------------
(* validateSlideUnit                                                       *)
(*                                                                         *)
(* unit.vars is the sequence of the object's entries in insertion order    *)
(* (Object.entries), each [key, value]; template.constraints and each of   *)
(* its three fields is Undefined or set; unit.assets is Undefined or       *)
(* Arr(<<asset, ...>>).  Identifiers and paths are atoms: only equality    *)
(* and emptiness are asked of them.                                        *)

MISSING_PATH == "missing://"

\* unit.vars[name]
GetVar(unit, name) ==
    IF \E i \in 1..Len(unit.vars) : unit.vars[i].key = name
    THEN unit.vars[CHOOSE i \in 1..Len(unit.vars) : unit.vars[i].key = name].value
    ELSE Undefined

\* cs.split("\n") on a sequence of characters
RECURSIVE split(_)
split(cs) ==
    IF \A i \in 1..Len(cs) : cs[i] # NL THEN <<cs>>
    ELSE LET k == CHOOSE i \in 1..Len(cs) :
                    cs[i] = NL /\ \A j \in 1..(i - 1) : cs[j] # NL
         IN  <<SubSeq(cs, 1, k - 1)>> \o split(SubSeq(cs, k + 1, Len(cs)))

\* mutant: a null value counts as missing (== undefined)
MissingVarErrors_NullIsMissing(unit, template) ==
    ConcatAll([i \in 1..Len(template.vars) |->
        IF GetVar(unit, template.vars[i]) \in {Undefined, Null}
        THEN <<"missing var: " \o template.vars[i]>>
        ELSE <<>>])

\* for (const varName of template.vars) ...
MissingVarErrors(unit, template) ==
    ConcatAll([i \in 1..Len(template.vars) |->
        IF GetVar(unit, template.vars[i]) = Undefined
        THEN <<"missing var: " \o template.vars[i]>>
        ELSE <<>>])

\* the bullets block is entered: bullets_max && Array.isArray(unit.vars.bullets)
BulletsChecked(unit, c) ==
    ~Falsy(c.bullets_max) /\ IsArray(GetVar(unit, "bullets"))

BulletCountErrors(unit, c) ==
    LET bullets == GetVar(unit, "bullets")
    IN  IF BulletsChecked(unit, c) /\ length(bullets) > c.bullets_max.num
        THEN <<"too many bullets: " \o ToString(length(bullets)) \o " > "
                \o ToString(c.bullets_max.num)>>
        ELSE <<>>

\* bullet.length > chars_per_line_max; an element without a length compares
\* as undefined > n, which is false
BulletLengthErrors(unit, c) ==
    LET bullets == GetVar(unit, "bullets")
    IN  IF BulletsChecked(unit, c) /\ ~Falsy(c.chars_per_line_max)
        THEN ConcatAll([i \in 1..length(bullets) |->
                LET bullet == bullets.items[i]
                IN  IF HasLength(bullet) /\ length(bullet) > c.chars_per_line_max.num
                    THEN <<"bullet[" \o ToString(i - 1) \o "] too long: "
                            \o ToString(length(bullet)) \o " > "
                            \o ToString(c.chars_per_line_max.num)>>
                    ELSE <<>>])
        ELSE <<>>

\* Object.entries(unit.vars).forEach: the lines of every string var but code
LineLengthErrors(unit, c) ==
    IF ~Falsy(c.chars_per_line_max)
    THEN ConcatAll([e \in 1..Len(unit.vars) |->
            LET key == unit.vars[e].key
                value == unit.vars[e].value
            IN  IF IsString(value) /\ key # "code"
                THEN LET lines == split(value.chars)
                     IN  ConcatAll([k \in 1..Len(lines) |->
                            IF Len(lines[k]) > c.chars_per_line_max.num
                            THEN <<key \o "[line " \o ToString(k - 1) \o "] too long: "
                                    \o ToString(Len(lines[k])) \o " > "
                                    \o ToString(c.chars_per_line_max.num)>>
                            ELSE <<>>])
                ELSE <<>>])
    ELSE <<>>

\* the reduce over Object.entries(unit.vars), from entry e on
RECURSIVE totalLinesFrom(_, _)
totalLinesFrom(unit, e) ==
    IF e > Len(unit.vars) THEN 0
    ELSE LET key == unit.vars[e].key
             value == unit.vars[e].value
         IN  (IF IsString(value) /\ key # "code" THEN Len(split(value.chars))
              ELSE IF IsArray(value) THEN length(value)
              ELSE 0)
             + totalLinesFrom(unit, e + 1)

TotalLinesErrors(unit, c) ==
    LET totalLines == totalLinesFrom(unit, 1)
    IN  IF ~Falsy(c.lines_max) /\ totalLines > c.lines_max.num
        THEN <<"too many lines: " \o ToString(totalLines) \o " > "
                \o ToString(c.lines_max.num)>>
        ELSE <<>>

\* mutant: only the sentinel counts, an empty path passes
AssetErrors_SentinelOnly(unit) ==
    IF Falsy(unit.assets) THEN <<>>
    ELSE ConcatAll([i \in 1..length(unit.assets) |->
            LET asset == unit.assets.items[i]
            IN  IF asset.path = MISSING_PATH
                THEN <<"asset[" \o ToString(i - 1) \o "] has missing path">>
                ELSE <<>>])

\* !asset.path || asset.path === "missing://"
AssetErrors(unit) ==
    IF Falsy(unit.assets) THEN <<>>
    ELSE ConcatAll([i \in 1..length(unit.assets) |->
            LET asset == unit.assets.items[i]
            IN  IF asset.path = "" \/ asset.path = MISSING_PATH
                THEN <<"asset[" \o ToString(i - 1) \o "] has missing path">>
                ELSE <<>>])

\* bullet.length raises a TypeError on a null or undefined element
validateSlideUnitThrows(unit, template) ==
    /\ template.constraints # Undefined
    /\ BulletsChecked(unit, template.constraints)
    /\ ~Falsy(template.constraints.chars_per_line_max)
    /\ \E i \in 1..length(GetVar(unit, "bullets")) :
            GetVar(unit, "bullets").items[i].kind \in {"null", "undefined"}

\* the string[] returned, when the call returns
validateSlideUnit(unit, template) ==
    MissingVarErrors(unit, template)
    \o (IF template.constraints # Undefined
        THEN BulletCountErrors(unit, template.constraints)
             \o BulletLengthErrors(unit, template.constraints)
             \o LineLengthErrors(unit, template.constraints)
             \o TotalLinesErrors(unit, template.constraints)
        ELSE <<>>)
    \o AssetErrors(unit)

----------------------------------------------------------------------------
(* validateSlideSpec                                                       *)

\* new Map(templates.map((t) => [t.id, t])).get(id): the last entry with
\* the id wins
templateMapGet(tpls, id) ==
    IF \E i \in 1..Len(tpls) : tpls[i].id = id
    THEN tpls[CHOOSE i \in 1..Len(tpls) :
                tpls[i].id = id /\ \A j \in (i + 1)..Len(tpls) : tpls[j].id # id]
    ELSE Undefined

\* the errors the forEach callback pushes for slides[idx] (idx from 0)
SlideErrors(slide, idx, tpls) ==
    LET template == templateMapGet(tpls, slide.template)
    IN  IF template = Undefined
        THEN <<[code |-> "UNKNOWN_TEMPLATE",
                message |-> "Unknown template: " \o slide.template,
                field |-> "slides[" \o ToString(idx) \o "].template",
                context |-> [slideIndex |-> idx, templateId |-> slide.template]]>>
        ELSE LET slideErrors == validateSlideUnit(slide, template)
             IN  [k \in 1..Len(slideErrors) |->
                    [code |-> "SLIDE_VALIDATION_ERROR",
                     message |-> slideErrors[k],
                     field |-> "slides[" \o ToString(idx) \o "]",
                     context |-> [slideIndex |-> idx, templateId |-> slide.template]]]

\* a TypeError raised by validateSlideUnit propagates out of the forEach
validateSlideSpecThrows(sl, tpls) ==
    \E i \in 1..Len(sl) :
        /\ templateMapGet(tpls, sl[i].template) # Undefined
        /\ validateSlideUnitThrows(sl[i], templateMapGet(tpls, sl[i].template))

\* mutant: an unknown template ends the loop (break) instead of the
\* iteration (return)
validateSlideSpec_StopAtUnknown(sl, tpls) ==
    LET unknown == {i \in 1..Len(sl) : templateMapGet(tpls, sl[i].template) = Undefined}
        last == IF unknown = {} THEN Len(sl)
                ELSE CHOOSE i \in unknown : \A j \in unknown : i <= j
        errors == ConcatAll([i \in 1..last |-> SlideErrors(sl[i], i - 1, tpls)])
        warnings == <<>>
    IN  [valid |-> Len(errors) = 0, errors |-> errors, warnings |-> warnings]

\* mutant: the slide index is counted from 1
validateSlideSpec_OneBased(sl, tpls) ==
    LET errors == ConcatAll([i \in 1..Len(sl) |-> SlideErrors(sl[i], i, tpls)])
        warnings == <<>>
    IN  [valid |-> Len(errors) = 0, errors |-> errors, warnings |-> warnings]

validateSlideSpec(sl, tpls) ==
    LET errors == ConcatAll([i \in 1..Len(sl) |-> SlideErrors(sl[i], i - 1, tpls)])
        warnings == <<>>
    IN  [valid |-> Len(errors) = 0, errors |-> errors, warnings |-> warnings]

----------------------------------------------------------------------------
(* SlideService.planSlides                                                 *)
(*                                                                         *)
(* The LLM's answer is either text that JSON.parse rejects or an object    *)
(* with a specs array; storage holds one slide-spec file per script or     *)
(* none.                                                                   *)

Unparseable == [kind |-> "unparseable"]
Parsed(specs) == [kind |-> "json", specs |-> specs]
SlideSpec(id, sl) == [section_id |-> id, slides |-> sl]

NoFile == [kind |-> "nofile"]
SavedFile(specs) == [kind |-> "file", specs |-> specs]

\* the Error parseLLMResponse throws, and the SlideSpec[] planSlides resolves to
ParseError == [kind |-> "Error"]
Specs(specs) == [kind |-> "SlideSpec[]", specs |-> specs]

\* result.specs.flatMap((spec) => spec.slides)
flatMapSlides(specs) == ConcatAll([i \in 1..Len(specs) |-> specs[i].slides])

\* what one call of planSlides returns, leaves in storage and logs; an
\* exception of the parser or of the validator rejects the promise before
\* anything is saved
planSlides(resp, tpls, stored) ==
    IF resp = Unparseable
    THEN [returned |-> ParseError, saved |-> stored, warned |-> <<>>]
    ELSE LET allSlides == flatMapSlides(resp.specs)
         IN  IF validateSlideSpecThrows(allSlides, tpls)
             THEN [returned |-> [kind |-> "TypeError"], saved |-> stored,
                   warned |-> <<>>]
             ELSE LET validation == validateSlideSpec(allSlides, tpls)
                  IN  [returned |-> Specs(resp.specs),
                       saved |-> SavedFile(resp.specs),
                       warned |-> IF ~validation.valid
                                  THEN <<"Slide validation errors",
                                         "Slide validation warnings">>
                                  ELSE <<>>]

----------------------------------------------------------------------------
(* ScriptService and the API routes                                        *)
(*                                                                         *)
(* One script, "script1".  A markdown text is a Str; an LLM answer is a    *)
(* failure of the request, a text, or a parsed JSON object, which is a     *)
(* record holding the fields the answer has.                               *)

ScriptId == "script1"
NoScript == [kind |-> "none"]

\* what llmClient.complete may do: reject, or resolve to a text
LlmError == [kind |-> "llm error"]
Error(msg) == [kind |-> "Error", message |-> msg]
NotNormalized == Error("Script must be normalized before segmentation")

\* a JSON answer to the segment prompt that has a sections array
ParsedSections(secs) == [kind |-> "json", sections |-> secs]
\* a JSON answer without one
ParsedEmptyObject == [kind |-> "json"]

SavedScript(s) == [kind |-> "file", script |-> s]
SavedSections(secs) == [kind |-> "file", sections |-> secs]
Sections(secs) == [kind |-> "Section[]", sections |-> secs]

IsSpace(c) == c \in {" ", NL}

\* response.trim()
RECURSIVE trim(_)
trim(cs) ==
    IF cs = <<>> THEN cs
    ELSE IF IsSpace(Head(cs)) THEN trim(Tail(cs))
    ELSE IF IsSpace(cs[Len(cs)]) THEN trim(SubSeq(cs, 1, Len(cs) - 1))
    ELSE cs

\* createScript: a fresh id, normalized_markdown: ""
createScript(raw) ==
    [id |-> ScriptId, raw_markdown |-> raw, normalized_markdown |-> Str(<<>>)]

\* normalizeScript: what it returns, leaves in the script file, and asks
normalizeScript(s, resp, stored) ==
    IF resp = LlmError
    THEN [returned |-> Error("llm"), saved |-> stored, prompts |-> <<"normalize">>]
    ELSE LET normalized ==
                [s EXCEPT !.normalized_markdown = Str(trim(resp.chars))]
         IN  [returned |-> normalized, saved |-> SavedScript(normalized),
              prompts |-> <<"normalize">>]

\* String(n).padStart(3, "0")
padStart3(n) ==
    IF n < 10 THEN "00" \o ToString(n)
    ELSE IF n < 100 THEN "0" \o ToString(n)
    ELSE ToString(n)

\* mutant: the spread comes last, so the fields of the answer win
mapSection_AnswerWins(sec, index, s) ==
    [f \in DOMAIN sec \cup {"id", "scriptId", "order"} |->
        IF f \in DOMAIN sec /\ ~(f = "id" /\ sec.id = "") THEN sec[f]
        ELSE IF f = "id" THEN "sec-" \o padStart3(index + 1)
        ELSE IF f = "scriptId" THEN s.id
        ELSE index]

\* { ...section, id: section.id || "sec-NNN", scriptId: script.id, order: index }
mapSection(sec, index, s) ==
    [f \in DOMAIN sec \cup {"id", "scriptId", "order"} |->
        IF f = "id"
        THEN IF "id" \in DOMAIN sec /\ sec.id # "" THEN sec.id
             ELSE "sec-" \o padStart3(index + 1)
        ELSE IF f = "scriptId" THEN s.id
        ELSE IF f = "order" THEN index
        ELSE sec[f]]

\* result.sections.map((section, index) => ...)
mapSections(secs, s) == [k \in 1..Len(secs) |-> mapSection(secs[k], k - 1, s)]

\* mutant: the script is segmented whether it is normalized or not
legacySegmentScript_Unguarded(s, resp) ==
    IF resp = LlmError
    THEN [returned |-> Error("llm"), prompts |-> <<"segment">>]
    ELSE IF resp = Unparseable
    THEN [returned |-> ParseError, prompts |-> <<"segment">>]
    ELSE IF "sections" \notin DOMAIN resp
    THEN [returned |-> [kind |-> "TypeError"], prompts |-> <<"segment">>]
    ELSE [returned |-> Sections(mapSections(resp.sections, s)),
          prompts |-> <<"segment">>]

\* the function of the first script service: no storage
legacySegmentScript(s, resp) ==
    IF Falsy(s.normalized_markdown)
    THEN [returned |-> NotNormalized, prompts |-> <<>>]
    ELSE IF resp = LlmError
    THEN [returned |-> Error("llm"), prompts |-> <<"segment">>]
    ELSE IF resp = Unparseable
    THEN [returned |-> ParseError, prompts |-> <<"segment">>]
    ELSE IF "sections" \notin DOMAIN resp
    THEN [returned |-> [kind |-> "TypeError"], prompts |-> <<"segment">>]
    ELSE [returned |-> Sections(mapSections(resp.sections, s)),
          prompts |-> <<"segment">>]

\* ScriptService.segmentScript: the same, and the sections it returns are
\* saved first
segmentScript(s, resp, stored) ==
    LET outcome == legacySegmentScript(s, resp)
    IN  [returned |-> outcome.returned,
         saved |-> IF outcome.returned.kind = "Section[]"
                   THEN SavedSections(outcome.returned.sections)
                   ELSE stored,
         prompts |-> outcome.prompts]

\* an HTTP answer
Http(status, body) == [kind |-> "http", status |-> status, body |-> body]

----------------------------------------------------------------------------
(* AudioService.generateTimings                                            *)

charsPerSecond == 5

\* gapAfterSec: 0.3, in ticks
DefaultGapTicks == 3

\* mutant: the next utterance starts where the previous one ends, its gap
\* not counted
RECURSIVE generateTimingsFrom_GapNotCounted(_, _)
generateTimingsFrom_GapNotCounted(secs, currentTime) ==
    IF secs = <<>> THEN <<>>
    ELSE LET duration == (length(Head(secs).text) * TicksPerSec) \div charsPerSecond
             timing == [lineId |-> Head(secs).id,
                        startSec |-> currentTime,
                        endSec |-> currentTime + duration,
                        gapAfterSec |-> DefaultGapTicks]
         IN  <<timing>> \o generateTimingsFrom_GapNotCounted(Tail(secs), timing.endSec)

\* the for loop, from the section at the head of secs on; section.text.length
\* / 5 seconds is a whole number of ticks
RECURSIVE generateTimingsFrom(_, _)
generateTimingsFrom(secs, currentTime) ==
    IF secs = <<>> THEN <<>>
    ELSE LET duration == (length(Head(secs).text) * TicksPerSec) \div charsPerSecond
             timing == [lineId |-> Head(secs).id,
                        startSec |-> currentTime,
                        endSec |-> currentTime + duration,
                        gapAfterSec |-> DefaultGapTicks]
         IN  <<timing>>
             \o generateTimingsFrom(Tail(secs), timing.endSec + timing.gapAfterSec)

generateTimings(secs) == generateTimingsFrom(secs, 0)

----------------------------------------------------------------------------
(* Arguments of the calls                                                  *)

LineIds == {"l1", "l2"}

\* ticks: 0 s, 0.5 s, 1.5 s, 2 s
StartTicks == {0, 5, 20}
EndTicks == {5, 15}
GapTicks == {0, 5}

TimingPool ==
    [lineId : LineIds, startSec : StartTicks, endSec : EndTicks, gapAfterSec : GapTicks]

\* three utterances of three lines, in any order of their start times
UnsortedTriples ==
    {<<a, b, c>> :
        a \in {t \in TimingPool : t.lineId = "l1"},
        b \in {t \in TimingPool : t.lineId = "l2"},
        c \in [lineId : {"l3"}, startSec : StartTicks, endSec : EndTicks,
               gapAfterSec : GapTicks]}

\* textMap.get(id) is textMap[id]; an id the map lacks maps to Undefined
TextMapPool ==
    {[l \in LineIds |-> IF l = "l1" THEN a ELSE b] :
        a \in {Undefined, Text(0), Text(5), Text(6), Text(14), Text(15)},
        b \in {Undefined, Text(15)}}
NoTextMap == [l \in LineIds |-> Undefined]

SectionTextLens == {0, 250, 299, 300, 301, 599, 600, 601}
IntentPool ==
    {"summary", "procedure", "caution", "tip", "example", "intro", "conclusion",
     "warning", ""}
SectionPool ==
    {[id |-> "s1", text |-> Text(n), intents |-> it] :
        n \in SectionTextLens,
        it \in {Undefined} \cup {Arr(q) : q \in SeqsUpTo(IntentPool, MaxIntents)}}

Entry(k, v) == [key |-> k, value |-> v]
Asset(p) == [kind |-> "image", path |-> p]

VarsPool ==
    { <<>>,
      <<Entry("title", Str(<<"a", "a">>))>>,
      <<Entry("title", Str(<<"a", "a", "a", NL, "a">>)),
        Entry("bullets", Arr(<<Str(<<"a">>), Str(<<"a", "a", "a", "a">>), Str(<<"a">>)>>))>>,
      <<Entry("bullets", Str(<<"a", "a", NL, "a", "a", "a">>)),
        Entry("code", Str(<<"a", "a", "a", "a", "a">>)),
        Entry("page", Num(7))>> }

AssetsPool ==
    { Undefined,
      Arr(<<Asset("img/a.png"), Asset(MISSING_PATH), Asset("")>>) }

TemplateIds == {"title", "bullets", "nope"}

SlidePool == [template : TemplateIds, vars : VarsPool, assets : AssetsPool]

Constraints(b, c, l) == [bullets_max |-> b, chars_per_line_max |-> c, lines_max |-> l]

TplTitle == [id |-> "title", vars |-> <<"title">>, constraints |-> Undefined]
TplBullets ==
    [id |-> "bullets", vars |-> <<"title", "bullets">>,
     constraints |-> Constraints(Num(2), Num(3), Num(4))]
TplBulletsLoose ==
    [id |-> "bullets", vars |-> <<"bullets">>,
     constraints |-> Constraints(Undefined, Num(2), Num(0))]

CatalogPool ==
    { <<>>,
      <<TplTitle>>,
      <<TplBulletsLoose>>,
      <<TplTitle, TplBullets>>,
      <<TplBullets, TplBulletsLoose>>,
      <<TplBulletsLoose, TplTitle, TplBullets>> }

\* the arguments of a direct call of validateSlideUnit: vars is any object,
\* so a value may be a string, an array of anything, null or undefined
Absent == [kind |-> "absent"]
EntryIfPresent(k, v) == IF v = Absent THEN <<>> ELSE <<Entry(k, v)>>

TitleValues ==
    { Absent, Undefined, Null,
      Str(<<"a", "a">>),
      Str(<<"a", "a", "a", "a", NL, "a">>) }
BulletsValues ==
    { Absent,
      Str(<<"a", "a", NL, "a", "a", "a", "a">>),
      Arr(<<>>),
      Arr(<<Str(<<"a">>)>>),
      Arr(<<Str(<<"a">>), Str(<<"a", "a", "a", "a">>), Str(<<"a", "a", "a", "a", "a">>)>>),
      Arr(<<Num(7), Str(<<"a", "a", "a", "a">>)>>),
      Arr(<<Null>>),
      Arr(<<Str(<<"a", "a", "a", "a">>), Undefined>>) }
CodeValues ==
    { Absent,
      Str(<<"a", "a", "a", "a", "a", NL, "a">>) }

AssetRef(k, p, l) == [kind |-> k, path |-> p, license |-> l]
UnitAssetsPool ==
    { Undefined,
      Arr(<<>>),
      Arr(<<AssetRef("image", "img/a.png", Undefined),
            AssetRef("video", MISSING_PATH, Str(<<"c", "c">>)),
            AssetRef("svg", "", Undefined)>>),
      Arr(<<AssetRef("audio", MISSING_PATH, Undefined)>>) }

UnitPool ==
    {[template |-> "t",
      vars |-> EntryIfPresent("title", t) \o EntryIfPresent("bullets", b)
               \o EntryIfPresent("code", c),
      assets |-> a] :
        t \in TitleValues, b \in BulletsValues, c \in CodeValues,
        a \in UnitAssetsPool}

TemplateVarsPool == { <<>>, <<"title", "bullets">>, <<"subtitle", "title">> }
BulletsMaxValues == {Undefined, Num(0), Num(2)}
CharsPerLineMaxValues == {Undefined, Num(0), Num(3)}
LinesMaxValues == {Undefined, Num(0), Num(3)}
ConstraintsPool ==
    {Undefined} \cup
    {Constraints(b, c, l) :
        b \in BulletsMaxValues, c \in CharsPerLineMaxValues, l \in LinesMaxValues}
TemplatePool ==
    {[id |-> "t", vars |-> v, constraints |-> c] :
        v \in TemplateVarsPool, c \in ConstraintsPool}

----------------------------------------------------------------------------
(* RenderJobService and the render-job files of StorageService             *)
(*                                                                         *)
(* A job file holds a RenderJob: its status and its optional outputs and   *)
(* error (Undefined when the field is absent).  A call of the service runs *)
(* from one await to the next; the steps of different calls and of the     *)
(* background executeRender interleave at the awaits.                      *)

\* the calls of the service that may be in flight together
MaxCalls == 2
Slots == 1..MaxCalls

\* the one job that gets created, and an id no job has
JobId == "job1"
UnknownId == "ghost"
JobIds == {JobId, UnknownId}

ErrorText(m) == [kind |-> "string", text |-> m]
Outputs == [kind |-> "outputs", videoPath |-> "script1.mp4",
            thumbPath |-> "script1-thumb.png"]

RenderJob(status, outputs, error) ==
    [kind |-> "job", status |-> status, outputs |-> outputs, error |-> error]

\* createRenderJob: status "queued", no outputs, no error
NewRenderJob == RenderJob("queued", Undefined, Undefined)

\* loadRenderJob(jobId): the job of the file, NoFile (null) when there is none
loadRenderJob(store, id) == store[id]

\* updateRenderJob: { ...job, ...updates, updatedAt } of the job it loaded
mergeUpdates(job, updates) ==
    [f \in DOMAIN job |-> IF f \in DOMAIN updates THEN updates[f] ELSE job[f]]

CancelledByUser == ErrorText("Job cancelled by user")
RemotionMissing ==
    "Remotion is not installed. Run: npm install -g @remotion/cli"
RenderFailed(m) == ErrorText("Render execution failed: " \o m)

\* the updates each operation hands to updateRenderJob
UpdatesOf(kind, error) ==
    CASE kind = "start" -> [status |-> "running"]
      [] kind = "cancel" -> [status |-> "failed", error |-> CancelledByUser]
      [] kind = "complete" -> [status |-> "done", outputs |-> Outputs]
      [] kind = "fail" -> [status |-> "failed", error |-> error]

\* mutant: a running job may be started again
startRenderJobThrows_RunningPasses(job) ==
    IF job = NoFile THEN "Render job not found"
    ELSE IF job.status \notin {"queued", "running"} THEN "Render job is not queued"
    ELSE "none"

\* startRenderJob: what it throws for the job it loaded ("none": it goes on)
startRenderJobThrows(job) ==
    IF job = NoFile THEN "Render job not found"
    ELSE IF job.status # "queued" THEN "Render job is not queued"
    ELSE "none"

\* mutant: a failed job may be cancelled again
cancelRenderJobThrows_FailedPasses(job) ==
    IF job = NoFile THEN "Render job not found"
    ELSE IF job.status = "done" THEN "Cannot cancel job"
    ELSE "none"

\* cancelRenderJob: what it throws for the job it loaded
cancelRenderJobThrows(job) ==
    IF job = NoFile THEN "Render job not found"
    ELSE IF job.status = "done" \/ job.status = "failed" THEN "Cannot cancel job"
    ELSE "none"

\* a call slot: not yet used
IdleCall ==
    [kind |-> "none", jobId |-> JobId, pc |-> "idle", loaded |-> NoFile,
     seen |-> NoFile, error |-> "none"]

\* the executeRender a start call launches: not launched
NoExec == [pc |-> "none", seen |-> NoFile, error |-> Undefined]

RenderInit ==
    /\ jobs = [id \in JobIds |-> NoFile]
    /\ calls = [k \in Slots |-> IdleCall]
    /\ execs = [k \in Slots |-> NoExec]

----------------------------------------------------------------------------
(* The calls                                                               *)

\* what the LLM may answer: slides of known and unknown templates, sound
\* and unsound, in one section or spread over two
PlannedVarsPool ==
    { <<Entry("title", Str(<<"a", "a">>))>>,
      <<Entry("title", Str(<<"a", "a">>)),
        Entry("bullets", Arr(<<Str(<<"a">>), Str(<<"a", "a", "a", "a">>), Str(<<"a">>)>>))>>,
      <<Entry("title", Str(<<"a">>)), Entry("bullets", Arr(<<Null>>))>> }
PlannedSlidePool == [template : TemplateIds, vars : PlannedVarsPool, assets : AssetsPool]
PlannedSlidesOfSection == {<<>>} \cup {<<sl>> : sl \in PlannedSlidePool}
ResponsePool ==
    {Unparseable, Parsed(<<>>)}
    \cup {Parsed(<<SlideSpec("s1", a)>>) : a \in PlannedSlidesOfSection}
    \cup {Parsed(<<SlideSpec("s1", a), SlideSpec("s2", b)>>) :
            a \in PlannedSlidesOfSection, b \in PlannedSlidesOfSection}
NoResponse == [kind |-> "none"]

\* up to three sections, of empty, short and longer text, in any order of
\* their order field
NarrationLens == {0, 1, 7}
SectionListPool ==
    UNION {[1..n -> {[id |-> "s" \o ToString(k), order |-> 3 - k, text |-> Text(m)] :
                        k \in 1..3, m \in NarrationLens}] : n \in 0..3}

NoResult == [kind |-> "none"]
Threw == [kind |-> "TypeError"]
NoUnit == [template |-> "", vars |-> <<>>, assets |-> Undefined]
NoTemplate == [id |-> "", vars |-> <<>>, constraints |-> Undefined]

Init ==
    /\ pc = "ready"
    /\ result = NoResult
    /\ savedSpecs = NoFile
    /\ warnLog = <<>>
    /\ \/ /\ op = "validateSlideUnit"
          /\ argUnit \in UnitPool
          /\ argTemplate \in TemplatePool
          /\ slides = <<>> /\ templates = <<>> /\ section = Undefined
          /\ timings = <<>> /\ textMap = NoTextMap
          /\ response = NoResponse
       \/ /\ op = "validateSlideSpec"
          /\ slides \in SeqsUpTo(SlidePool, MaxSlides)
          /\ templates \in CatalogPool
          /\ argUnit = NoUnit /\ argTemplate = NoTemplate /\ response = NoResponse
          /\ section = Undefined /\ timings = <<>> /\ textMap = NoTextMap
       \/ /\ op = "validateSection"
          /\ section \in SectionPool
          /\ argUnit = NoUnit /\ argTemplate = NoTemplate /\ response = NoResponse
          /\ slides = <<>> /\ templates = <<>> /\ timings = <<>> /\ textMap = NoTextMap
       \/ /\ op = "validateSpeechDensity"
          /\ timings \in SeqsUpTo(TimingPool, MaxTimings)
          /\ textMap \in TextMapPool
          /\ argUnit = NoUnit /\ argTemplate = NoTemplate /\ response = NoResponse
          /\ slides = <<>> /\ templates = <<>> /\ section = Undefined
       \/ /\ op = "validateTimingSync"
          /\ timings \in SeqsUpTo(TimingPool, MaxTimings) \cup UnsortedTriples
          /\ argUnit = NoUnit /\ argTemplate = NoTemplate /\ response = NoResponse
          /\ slides = <<>> /\ templates = <<>> /\ section = Undefined
          /\ textMap = NoTextMap
       \/ /\ op = "planSlides"
          /\ response \in ResponsePool
          /\ templates \in CatalogPool
          /\ argUnit = NoUnit /\ argTemplate = NoTemplate
          /\ slides = <<>> /\ section = Undefined /\ timings = <<>>
          /\ textMap = NoTextMap
       \/ /\ op = "generateTimings"
          /\ argUnit = NoUnit /\ argTemplate = NoTemplate /\ response = NoResponse
          /\ slides = <<>> /\ templates = <<>> /\ section = Undefined
          /\ timings = <<>> /\ textMap = NoTextMap
    /\ sections \in IF op = "generateTimings" THEN SectionListPool ELSE {<<>>}
    /\ script = NoScript
    /\ scriptStore = NoFile
    /\ sectionStore = NoFile
    /\ llmPrompts = <<>>
    /\ RenderInit

\* the validators read their arguments and write none of them
Returns(r) ==
    /\ pc = "ready"
    /\ pc' = "done"
    /\ result' = r
    /\ UNCHANGED <<op, argUnit, argTemplate, slides, templates, section, timings,
                   textMap, sections, response, savedSpecs, warnLog>>
    /\ UNCHANGED serviceVars
    /\ UNCHANGED renderVars

\* the string[] of messages validateSlideUnit returns
Messages(msgs) == [kind |-> "string[]", items |-> msgs]

CallValidateSlideUnit ==
    /\ op = "validateSlideUnit"
    /\ Returns(IF validateSlideUnitThrows(argUnit, argTemplate) THEN Threw
               ELSE Messages(validateSlideUnit(argUnit, argTemplate)))

CallValidateSlideSpec ==
    /\ op = "validateSlideSpec"
    /\ Returns(IF validateSlideSpecThrows(slides, templates) THEN Threw
               ELSE validateSlideSpec(slides, templates))

CallValidateSection ==
    /\ op = "validateSection"
    /\ Returns(validateSection(section))

CallValidateSpeechDensity ==
    /\ op = "validateSpeechDensity"
    /\ Returns(validateSpeechDensity(timings, textMap))

CallValidateTimingSync ==
    /\ op = "validateTimingSync"
    /\ Returns(validateTimingSync(timings))

\* the Timing[] generateTimings resolves to
Timings(ts) == [kind |-> "Timing[]", items |-> ts]

CallGenerateTimings ==
    /\ op = "generateTimings"
    /\ Returns(Timings(generateTimings(sections)))

\* the whole of planSlides: complete, parse, validate, warn, save, return
CallPlanSlides ==
    /\ op = "planSlides"
    /\ pc = "ready"
    /\ pc' = "done"
    /\ LET outcome == planSlides(response, templates, savedSpecs)
       IN  /\ result' = outcome.returned
           /\ savedSpecs' = outcome.saved
           /\ warnLog' = warnLog \o outcome.warned
    /\ UNCHANGED <<op, argUnit, argTemplate, slides, templates, section, timings,
                   textMap, sections, response>>
    /\ UNCHANGED serviceVars
    /\ UNCHANGED renderVars

Next ==
    \/ CallValidateSlideUnit
    \/ CallValidateSlideSpec
    \/ CallValidateSection
    \/ CallValidateSpeechDensity
    \/ CallValidateTimingSync
    \/ CallPlanSlides
    \/ CallGenerateTimings

Spec == Init /\ [][Next]_vars

----------------------------------------------------------------------------
(* The script pipeline: the API routes and the script service, one         *)
(* operation after another                                                 *)

RawMarkdown == Str(<<"r">>)

\* what the LLM may answer to the normalize prompt
NormalizeAnswers ==
    {LlmError, Str(<<>>), Str(<<" ", NL>>), Str(<<" ", "m", NL>>)}

\* the sections of an answer to the segment prompt: with and without an id,
\* with an order and a scriptId of the LLM's own
SecBare == [text |-> Text(3)]
SecOwn == [id |-> "intro", text |-> Text(2), order |-> 7, scriptId |-> "other"]
SecEmptyId == [id |-> "", text |-> Text(1), order |-> 0]
SegmentLists ==
    { <<>>, <<SecBare>>, <<SecOwn>>, <<SecEmptyId>>, <<SecOwn, SecBare>>,
      <<SecEmptyId, SecEmptyId>>, <<SecOwn, SecOwn>>,
      <<SecBare, SecOwn, SecEmptyId>> }
SegmentAnswers ==
    {LlmError, Unparseable, ParsedEmptyObject}
    \cup {ParsedSections(q) : q \in SegmentLists}

\* the scripts a caller may hand to the service: as created, and normalized
ScriptArgs ==
    { createScript(RawMarkdown),
      [createScript(RawMarkdown) EXCEPT !.normalized_markdown = Str(<<"m">>)] }

\* answers to the slidespec prompt: unparseable, sound, unsound
PlanAnswers ==
    { Unparseable,
      Parsed(<<SlideSpec("sec-001",
                <<[template |-> "title",
                   vars |-> <<Entry("title", Str(<<"a", "a">>))>>,
                   assets |-> Undefined]>>)>>),
      Parsed(<<SlideSpec("sec-001",
                <<[template |-> "nope", vars |-> <<>>, assets |-> Undefined]>>)>>) }

PipelineInit ==
    /\ op = "none"
    /\ pc = "ready"
    /\ result = NoResult
    /\ response = NoResponse
    /\ argUnit = NoUnit /\ argTemplate = NoTemplate
    /\ slides = <<>> /\ section = Undefined /\ timings = <<>>
    /\ textMap = NoTextMap /\ sections = <<>>
    /\ templates = <<TplTitle>>
    /\ savedSpecs = NoFile
    /\ warnLog = <<>>
    /\ script = NoScript
    /\ scriptStore = NoFile
    /\ sectionStore = NoFile
    /\ llmPrompts = <<>>
    /\ RenderInit

\* an operation of the pipeline ran: what it was, was handed, asked, answered
Ran(name, s, resp, prompts, r) ==
    /\ op' = name
    /\ pc' = "done"
    /\ script' = s
    /\ response' = resp
    /\ llmPrompts' = prompts
    /\ result' = r
    /\ UNCHANGED <<callArgs, templates, renderVars>>

\* POST /script/ingest
PostScriptIngest ==
    /\ scriptStore = NoFile
    /\ \E complete \in BOOLEAN :
        IF ~complete
        THEN /\ Ran("POST /script/ingest", NoScript, NoResponse, <<>>,
                    Http(400, "Missing required fields: title, markdown"))
             /\ UNCHANGED scriptStore
        ELSE /\ Ran("POST /script/ingest", NoScript, NoResponse, <<>>,
                    Http(201, createScript(RawMarkdown).id))
             /\ scriptStore' = SavedScript(createScript(RawMarkdown))
    /\ UNCHANGED <<sectionStore, savedSpecs, warnLog>>

\* POST /script/normalize
PostScriptNormalize ==
    /\ \E answer \in NormalizeAnswers :
        IF scriptStore = NoFile
        THEN /\ Ran("POST /script/normalize", NoScript, NoResponse, <<>>,
                    Http(404, "Script not found"))
             /\ UNCHANGED scriptStore
        ELSE LET outcome == normalizeScript(scriptStore.script, answer, scriptStore)
             IN  /\ Ran("POST /script/normalize", scriptStore.script, answer,
                        outcome.prompts,
                        IF outcome.returned = Error("llm")
                        THEN Http(500, "Failed to normalize script")
                        ELSE Http(200, outcome.returned.normalized_markdown))
                 /\ scriptStore' = outcome.saved
    /\ UNCHANGED <<sectionStore, savedSpecs, warnLog>>

\* POST /script/segment
PostScriptSegment ==
    /\ \E answer \in SegmentAnswers :
        IF scriptStore = NoFile
        THEN /\ Ran("POST /script/segment", NoScript, NoResponse, <<>>,
                    Http(404, "Script not found"))
             /\ UNCHANGED sectionStore
        ELSE IF Falsy(scriptStore.script.normalized_markdown)
        THEN /\ Ran("POST /script/segment", NoScript, NoResponse, <<>>,
                    Http(400, "Script must be normalized before segmentation"))
             /\ UNCHANGED sectionStore
        ELSE LET outcome == segmentScript(scriptStore.script, answer, sectionStore)
             IN  /\ Ran("POST /script/segment", scriptStore.script, answer,
                        outcome.prompts,
                        IF outcome.returned.kind = "Section[]"
                        THEN Http(200, outcome.returned)
                        ELSE Http(500, "Failed to segment script"))
                 /\ sectionStore' = outcome.saved
    /\ UNCHANGED <<scriptStore, savedSpecs, warnLog>>

\* scriptService.segmentScript(script), called on a script the caller holds
CallSegmentScript ==
    /\ \E s \in ScriptArgs, answer \in SegmentAnswers :
        LET outcome == segmentScript(s, answer, sectionStore)
        IN  /\ Ran("segmentScript", s,
                   IF outcome.prompts = <<>> THEN NoResponse ELSE answer,
                   outcome.prompts, outcome.returned)
            /\ sectionStore' = outcome.saved
    /\ UNCHANGED <<scriptStore, savedSpecs, warnLog>>

\* segmentScript(script, llmClient) of the first script service
CallLegacySegmentScript ==
    /\ \E s \in ScriptArgs, answer \in SegmentAnswers :
        LET outcome == legacySegmentScript(s, answer)
        IN  Ran("legacy segmentScript", s,
                IF outcome.prompts = <<>> THEN NoResponse ELSE answer,
                outcome.prompts, outcome.returned)
    /\ UNCHANGED <<scriptStore, sectionStore, savedSpecs, warnLog>>

\* POST /slides/plan
PostSlidesPlan ==
    /\ \E answer \in PlanAnswers :
        IF sectionStore = NoFile
        THEN /\ Ran("POST /slides/plan", NoScript, NoResponse, <<>>,
                    Http(404, "Sections not found for script"))
             /\ UNCHANGED <<savedSpecs, warnLog>>
        ELSE LET outcome == planSlides(answer, templates, savedSpecs)
             IN  /\ Ran("POST /slides/plan", NoScript, answer, <<"slidespec">>,
                        IF outcome.returned.kind = "SlideSpec[]"
                        THEN Http(200, outcome.returned)
                        ELSE Http(500, "Failed to plan slides"))
                 /\ savedSpecs' = outcome.saved
                 /\ warnLog' = outcome.warned
    /\ UNCHANGED <<scriptStore, sectionStore>>

PipelineNext ==
    \/ PostScriptIngest
    \/ PostScriptNormalize
    \/ PostScriptSegment
    \/ CallSegmentScript
    \/ CallLegacySegmentScript
    \/ PostSlidesPlan

PipelineSpec == PipelineInit /\ [][PipelineNext]_vars

----------------------------------------------------------------------------
(* The render-job service: calls arriving while others are in flight       *)

otherVars ==
    <<op, callArgs, templates, response, savedSpecs, warnLog, serviceVars, pc,
      result>>

\* the message a caller of failRenderJob passes
GivenError == ErrorText("render crashed")

\* slot k takes the next call to arrive
Arrives(k) ==
    /\ calls[k].pc = "idle"
    /\ IF k = 1 THEN TRUE ELSE calls[k - 1].pc # "idle"

\* a caller knows the id of a job only once createRenderJob has returned it
Callable(id) == id = UnknownId \/ jobs[JobId] # NoFile

\* createRenderJob
CreateRenderJob ==
    /\ jobs[JobId] = NoFile
    /\ jobs' = [jobs EXCEPT ![JobId] = NewRenderJob]
    /\ UNCHANGED <<calls, execs, otherVars>>

\* startRenderJob up to its call of updateRenderJob: load, not found, not queued
StartRenderJob(k, id) ==
    /\ Arrives(k) /\ Callable(id)
    /\ LET job == loadRenderJob(jobs, id)
           thrown == startRenderJobThrows(job)
       IN  calls' = [calls EXCEPT ![k] =
                [kind |-> "start", jobId |-> id,
                 pc |-> IF thrown = "none" THEN "update-load" ELSE "threw",
                 loaded |-> job, seen |-> NoFile, error |-> thrown]]
    /\ UNCHANGED <<jobs, execs, otherVars>>

\* cancelRenderJob up to its call of updateRenderJob
CancelRenderJob(k, id) ==
    /\ Arrives(k) /\ Callable(id)
    /\ LET job == loadRenderJob(jobs, id)
           thrown == cancelRenderJobThrows(job)
       IN  calls' = [calls EXCEPT ![k] =
                [kind |-> "cancel", jobId |-> id,
                 pc |-> IF thrown = "none" THEN "update-load" ELSE "threw",
                 loaded |-> job, seen |-> NoFile, error |-> thrown]]
    /\ UNCHANGED <<jobs, execs, otherVars>>

\* completeRenderJob / failRenderJob called from outside: updateRenderJob
\* loads the job and throws when there is none
CompleteOrFailRenderJob(k, id, kind) ==
    /\ Arrives(k) /\ Callable(id)
    /\ LET job == loadRenderJob(jobs, id)
       IN  calls' = [calls EXCEPT ![k] =
                [kind |-> kind, jobId |-> id,
                 pc |-> IF job = NoFile THEN "threw" ELSE "update-save",
                 loaded |-> job, seen |-> job,
                 error |-> IF job = NoFile THEN "Render job not found" ELSE "none"]]
    /\ UNCHANGED <<jobs, execs, otherVars>>

CompleteRenderJob(k, id) == CompleteOrFailRenderJob(k, id, "complete")
FailRenderJob(k, id) == CompleteOrFailRenderJob(k, id, "fail")

\* updateRenderJob inside startRenderJob / cancelRenderJob: its own load
UpdateLoad(k) ==
    /\ calls[k].pc = "update-load"
    /\ LET job == loadRenderJob(jobs, calls[k].jobId)
       IN  calls' = [calls EXCEPT ![k].seen = job,
                                  ![k].pc = IF job = NoFile THEN "threw"
                                            ELSE "update-save",
                                  ![k].error = IF job = NoFile
                                               THEN "Render job not found"
                                               ELSE "none"]
    /\ UNCHANGED <<jobs, execs, otherVars>>

\* updateRenderJob: saveRenderJob of the merged job; the write may fail.
\* startRenderJob then launches executeRender(job) without awaiting it.
UpdateSave(k) ==
    /\ calls[k].pc = "update-save"
    /\ \E written \in BOOLEAN :
        IF written
        THEN /\ jobs' = [jobs EXCEPT ![calls[k].jobId] =
                    mergeUpdates(calls[k].seen, UpdatesOf(calls[k].kind, GivenError))]
             /\ calls' = [calls EXCEPT ![k].pc = "returned"]
             /\ execs' = IF calls[k].kind = "start"
                         THEN [execs EXCEPT ![k].pc = "check"]
                         ELSE execs
        ELSE /\ calls' = [calls EXCEPT ![k].pc = "threw",
                                       ![k].error = "write failed"]
             /\ UNCHANGED <<jobs, execs>>
    /\ UNCHANGED otherVars

\* executeRender: checkRemotionAvailable
ExecCheckRemotion(k) ==
    /\ execs[k].pc = "check"
    /\ \E available \in BOOLEAN :
        execs' = [execs EXCEPT ![k] =
            IF available THEN [@ EXCEPT !.pc = "render"]
            ELSE [@ EXCEPT !.pc = "fail-load",
                           !.error = RenderFailed(RemotionMissing)]]
    /\ UNCHANGED <<jobs, calls, otherVars>>

\* executeRender: the remotion command (it ends, at the latest by its
\* timeout), then generateThumbnail, which never fails the job
ExecRenderCommand(k) ==
    /\ execs[k].pc = "render"
    /\ \E rendered \in BOOLEAN :
        execs' = [execs EXCEPT ![k] =
            IF rendered THEN [@ EXCEPT !.pc = "complete-load"]
            ELSE [@ EXCEPT !.pc = "fail-load",
                           !.error = RenderFailed("Command failed")]]
    /\ UNCHANGED <<jobs, calls, otherVars>>

\* completeRenderJob from executeRender: updateRenderJob loads
ExecCompleteLoad(k) ==
    /\ execs[k].pc = "complete-load"
    /\ execs' = [execs EXCEPT ![k].seen = loadRenderJob(jobs, calls[k].jobId),
                              ![k].pc = "complete-save"]
    /\ UNCHANGED <<jobs, calls, otherVars>>

\* ... and saves; a failed write is caught and rethrown by executeRender,
\* which takes it to the catch of startRenderJob
ExecCompleteSave(k) ==
    /\ execs[k].pc = "complete-save"
    /\ \E written \in BOOLEAN :
        IF written
        THEN /\ jobs' = [jobs EXCEPT ![calls[k].jobId] =
                    mergeUpdates(execs[k].seen, UpdatesOf("complete", Undefined))]
             /\ execs' = [execs EXCEPT ![k].pc = "end"]
        ELSE /\ execs' = [execs EXCEPT ![k].pc = "fail-load",
                                       ![k].error = RenderFailed("write failed")]
             /\ UNCHANGED jobs
    /\ UNCHANGED <<calls, otherVars>>

\* the catch of startRenderJob: failRenderJob(jobId, error.message), not
\* awaited; updateRenderJob loads
ExecFailLoad(k) ==
    /\ execs[k].pc = "fail-load"
    /\ execs' = [execs EXCEPT ![k].seen = loadRenderJob(jobs, calls[k].jobId),
                              ![k].pc = "fail-save"]
    /\ UNCHANGED <<jobs, calls, otherVars>>

\* ... and saves; nobody handles a failed write
ExecFailSave(k) ==
    /\ execs[k].pc = "fail-save"
    /\ \E written \in BOOLEAN :
        IF written
        THEN /\ jobs' = [jobs EXCEPT ![calls[k].jobId] =
                    mergeUpdates(execs[k].seen, UpdatesOf("fail", execs[k].error))]
             /\ execs' = [execs EXCEPT ![k].pc = "end"]
        ELSE /\ execs' = [execs EXCEPT ![k].pc = "rejected"]
             /\ UNCHANGED jobs
    /\ UNCHANGED <<calls, otherVars>>

\* the continuation of call k after an await
CallStep(k) == UpdateLoad(k) \/ UpdateSave(k)

\* the continuation of the executeRender of call k after an await
ExecStep(k) ==
    \/ ExecCheckRemotion(k)
    \/ ExecRenderCommand(k)
    \/ ExecCompleteLoad(k)
    \/ ExecCompleteSave(k)
    \/ ExecFailLoad(k)
    \/ ExecFailSave(k)

RenderNext ==
    \/ CreateRenderJob
    \/ \E k \in Slots, id \in JobIds : StartRenderJob(k, id)
    \/ \E k \in Slots, id \in JobIds : CancelRenderJob(k, id)
    \/ \E k \in Slots, id \in JobIds : CompleteRenderJob(k, id)
    \/ \E k \in Slots, id \in JobIds : FailRenderJob(k, id)
    \/ \E k \in Slots : CallStep(k)
    \/ \E k \in Slots : ExecStep(k)

RenderSpec == PipelineInit /\ [][RenderNext]_vars

\* every await returns or fails: a continuation that is ready runs
RenderFairness ==
    \A k \in Slots : WF_vars(CallStep(k)) /\ WF_vars(ExecStep(k))

RenderFairSpec == RenderSpec /\ RenderFairness

\* the call has returned a ValidationResult
Returned(o) == pc = "done" /\ op = o /\ result # Threw

----------------------------------------------------------------------------
(* Properties                                                              *)

\* how many findings of seq carry the code c
CodeCount(seq, c) == Cardinality({k \in 1..Len(seq) : seq[k].code = c})

\* the validators that return a ValidationResult
ResultValidators ==
    {"validateSlideSpec", "validateSection", "validateSpeechDensity",
     "validateTimingSync"}

\* C1: whatever a validator is given, the result it returns has valid = TRUE
\* exactly when its errors sequence is empty; warnings do not count.
Thm_C1_ValidIffNoErrors ==
    (pc = "done" /\ op \in ResultValidators /\ result # Threw) =>
        (result.valid <=> Len(result.errors) = 0)

Wit_C1_ValidWithWarnings ==
    /\ Returned("validateSpeechDensity")
    /\ result.valid
    /\ Len(result.warnings) > 0

\* the slide's template id is not the id of any template of the catalog
InCatalog(id) == \E t \in 1..Len(templates) : templates[t].id = id
UnknownSlides == {i \in 1..Len(slides) : ~InCatalog(slides[i].template)}

\* the positions of the slides of known template, in increasing order
KnownIdx ==
    LET IsKnown(i) == i \notin UnknownSlides
    IN  SelectSeq([i \in 1..Len(slides) |-> i], IsKnown)

\* C2: each slide of unknown template gets exactly one UNKNOWN_TEMPLATE error
\* carrying its index and no SLIDE_VALIDATION_ERROR, and the errors of the
\* other slides are those validateSlideSpec reports for the list without the
\* unknown-template slides (same codes, messages and template ids, in the
\* same order, each under its slide's own index).
Thm_C2_UnknownTemplateIsPerSlide ==
    Returned("validateSlideSpec") =>
        /\ \A i \in UnknownSlides :
            /\ Cardinality({k \in 1..Len(result.errors) :
                    /\ result.errors[k].code = "UNKNOWN_TEMPLATE"
                    /\ result.errors[k].context.slideIndex = i - 1}) = 1
            /\ ~\E k \in 1..Len(result.errors) :
                    /\ result.errors[k].code = "SLIDE_VALIDATION_ERROR"
                    /\ result.errors[k].context.slideIndex = i - 1
        /\ LET OfKnown(e) == e.context.slideIndex + 1 \notin UnknownSlides
               kept == SelectSeq(result.errors, OfKnown)
               alone == validateSlideSpec([k \in 1..Len(KnownIdx) |-> slides[KnownIdx[k]]],
                                          templates).errors
           IN  /\ Len(kept) = Len(alone)
               /\ \A k \in 1..Len(kept) :
                    /\ kept[k].code = alone[k].code
                    /\ kept[k].message = alone[k].message
                    /\ kept[k].context.templateId = alone[k].context.templateId
                    /\ kept[k].context.slideIndex + 1
                           = KnownIdx[alone[k].context.slideIndex + 1]

\* an unknown-template slide stands before a slide that has structural errors
Wit_C2_UnknownThenErrors ==
    /\ Returned("validateSlideSpec")
    /\ \E i \in UnknownSlides : \E k \in 1..Len(result.errors) :
            /\ result.errors[k].code = "SLIDE_VALIDATION_ERROR"
            /\ result.errors[k].context.slideIndex > i - 1

\* what validateSlideSpec is to report for slides[i]
ExpectedSlideErrors(i) ==
    IF i \in UnknownSlides
    THEN <<[code |-> "UNKNOWN_TEMPLATE", message |-> "", slideIndex |-> i - 1]>>
    ELSE LET msgs == validateSlideUnit(slides[i],
                                       templateMapGet(templates, slides[i].template))
         IN  [k \in 1..Len(msgs) |->
                [code |-> "SLIDE_VALIDATION_ERROR", message |-> msgs[k],
                 slideIndex |-> i - 1]]

RECURSIVE SumLen(_)
SumLen(ss) == IF ss = <<>> THEN 0 ELSE Len(Head(ss)) + SumLen(Tail(ss))

\* C3: validateSlideSpec returns no warning; its errors are, slide by slide
\* in index order, one UNKNOWN_TEMPLATE for a slide of unknown template and
\* otherwise one SLIDE_VALIDATION_ERROR per message of validateSlideUnit, text
\* and order kept, slideIndex the slide's position; so their number is the
\* number of unknown-template slides plus the sum of the message counts.
Thm_C3_ErrorsWrapUnitMessages ==
    Returned("validateSlideSpec") =>
        /\ result.warnings = <<>>
        /\ [k \in 1..Len(result.errors) |->
                [code |-> result.errors[k].code,
                 message |-> IF result.errors[k].code = "UNKNOWN_TEMPLATE" THEN ""
                             ELSE result.errors[k].message,
                 slideIndex |-> result.errors[k].context.slideIndex]]
            = ConcatAll([i \in 1..Len(slides) |-> ExpectedSlideErrors(i)])
        /\ Len(result.errors)
            = Cardinality(UnknownSlides)
              + SumLen([k \in 1..Len(KnownIdx) |->
                    validateSlideUnit(slides[KnownIdx[k]],
                        templateMapGet(templates, slides[KnownIdx[k]].template))])

\* two slides of known template, each with several messages
Wit_C3_TwoSlidesSeveralMessages ==
    /\ Returned("validateSlideSpec")
    /\ UnknownSlides = {}
    /\ Len(slides) = 2
    /\ \A i \in 1..2 :
        Cardinality({k \in 1..Len(result.errors) :
            result.errors[k].context.slideIndex = i - 1}) >= 2

\* the entries of timings with the lineId x, and those of them that end no
\* later than they start
Entries(x) == {i \in 1..Len(timings) : timings[i].lineId = x}
NonPositive(x) == {i \in Entries(x) : timings[i].endSec <= timings[i].startSec}
Positive(x) == Entries(x) \ NonPositive(x)

\* how many findings of seq carry the code c for the lineId x
FindingsFor(seq, c, x) ==
    Cardinality({k \in 1..Len(seq) : seq[k].code = c /\ seq[k].context.lineId = x})

\* C4 as claimed: whatever the text lookup, each entry with endSec <= startSec
\* yields an INVALID_DURATION error, so the result is invalid, and no
\* SPEECH_TOO_SLOW or SPEECH_TOO_FAST.
Orig_C4_NonPositiveAlwaysInvalidDuration ==
    Returned("validateSpeechDensity") =>
        \A x \in LineIds :
            /\ FindingsFor(result.errors, "INVALID_DURATION", x)
                    = Cardinality(NonPositive(x))
            /\ NonPositive(x) # {} => ~result.valid
            /\ Positive(x) = {} =>
                    /\ FindingsFor(result.warnings, "SPEECH_TOO_SLOW", x) = 0
                    /\ FindingsFor(result.warnings, "SPEECH_TOO_FAST", x) = 0

\* C4 as amended: each entry with endSec <= startSec for whose lineId no
\* MISSING_TEXT is reported yields exactly one INVALID_DURATION error, so the
\* result is invalid; one for whose lineId MISSING_TEXT is reported yields
\* no error; neither yields SPEECH_TOO_SLOW or SPEECH_TOO_FAST.
Thm_C4_NonPositiveWithTextInvalidDuration ==
    Returned("validateSpeechDensity") =>
        \A x \in LineIds :
            /\ FindingsFor(result.errors, "INVALID_DURATION", x)
                    = IF FindingsFor(result.warnings, "MISSING_TEXT", x) > 0 THEN 0
                      ELSE Cardinality(NonPositive(x))
            /\ (/\ NonPositive(x) # {}
                /\ FindingsFor(result.warnings, "MISSING_TEXT", x) = 0) => ~result.valid
            /\ Positive(x) = {} =>
                    /\ FindingsFor(result.warnings, "SPEECH_TOO_SLOW", x) = 0
                    /\ FindingsFor(result.warnings, "SPEECH_TOO_FAST", x) = 0

\* an entry of non-positive duration whose text was found
Wit_C4_InvalidDurationReported ==
    /\ Returned("validateSpeechDensity")
    /\ \E x \in LineIds :
        /\ NonPositive(x) # {}
        /\ FindingsFor(result.errors, "INVALID_DURATION", x) = Cardinality(NonPositive(x))
    /\ ~result.valid

\* C5 as claimed: an entry yields MISSING_TEXT exactly when the lookup has no
\* entry for its lineId, whatever the length of a text that is there; an
\* entry without text yields that one warning and nothing else.
Orig_C5_MissingTextIffAbsent ==
    Returned("validateSpeechDensity") =>
        \A x \in LineIds :
            /\ FindingsFor(result.warnings, "MISSING_TEXT", x)
                    = IF textMap[x] = Undefined THEN Cardinality(Entries(x)) ELSE 0
            /\ textMap[x] = Undefined =>
                    /\ \A k \in 1..Len(result.errors) : result.errors[k].context.lineId # x
                    /\ \A k \in 1..Len(result.warnings) :
                            result.warnings[k].context.lineId = x
                                => result.warnings[k].code = "MISSING_TEXT"

\* C6 as claimed: an entry with a text of length L and a duration D > 0
\* yields one SPEECH_TOO_SLOW iff L < 12 * D, one SPEECH_TOO_FAST iff
\* L > 28 * D, nothing in between, and never both.  D is ticks / TicksPerSec.
Orig_C6_DensityBand ==
    Returned("validateSpeechDensity") =>
        \A x \in LineIds :
            textMap[x] # Undefined =>
                LET L == Len(textMap[x].chars)
                    D(i) == timings[i].endSec - timings[i].startSec
                    slow == {i \in Positive(x) : L * TicksPerSec < 12 * D(i)}
                    fast == {i \in Positive(x) : L * TicksPerSec > 28 * D(i)}
                IN  /\ FindingsFor(result.warnings, "SPEECH_TOO_SLOW", x) = Cardinality(slow)
                    /\ FindingsFor(result.warnings, "SPEECH_TOO_FAST", x) = Cardinality(fast)
                    /\ slow \cap fast = {}

\* the adjacent pair (timings[i], timings[i + 1]) and its two quantities
Pairs == 1..(Len(timings) - 1)
CurrentEnd(i) == timings[i].endSec + timings[i].gapAfterSec
Gap(i) == timings[i + 1].startSec - CurrentEnd(i)
PairIds(i) == [currentId |-> timings[i].lineId, nextId |-> timings[i + 1].lineId]

\* the pairs, in order, that findings name
Named(seq) ==
    [k \in 1..Len(seq) |->
        [currentId |-> seq[k].context.currentId, nextId |-> seq[k].context.nextId]]

\* C7: the errors of validateTimingSync are one TIMING_OVERLAP, naming A and
\* B, for each adjacent pair with A.endSec + A.gapAfterSec > B.startSec, in
\* order, and none for a pair where the two are equal; the result is invalid
\* iff some adjacent pair overlaps.
Thm_C7_OverlapIffStrictlyGreater ==
    Returned("validateTimingSync") =>
        /\ \A k \in 1..Len(result.errors) : result.errors[k].code = "TIMING_OVERLAP"
        /\ Named(result.errors)
            = ConcatAll([i \in Pairs |->
                IF CurrentEnd(i) > timings[i + 1].startSec THEN <<PairIds(i)>> ELSE <<>>])
        /\ ~result.valid <=> \E i \in Pairs : CurrentEnd(i) > timings[i + 1].startSec

Wit_C7_OverlapReported ==
    /\ Returned("validateTimingSync")
    /\ \E i \in Pairs : CurrentEnd(i) > timings[i + 1].startSec
    /\ CodeCount(result.errors, "TIMING_OVERLAP") > 0
    /\ ~result.valid

\* C8: the warnings of validateTimingSync are one LARGE_GAP for each adjacent
\* pair whose gap exceeds one second, in order, and none for a gap of exactly
\* one second; a result with LARGE_GAP warnings and no overlapping pair is
\* valid.
Thm_C8_LargeGapIffOverOneSecond ==
    Returned("validateTimingSync") =>
        /\ \A k \in 1..Len(result.warnings) : result.warnings[k].code = "LARGE_GAP"
        /\ Named(result.warnings)
            = ConcatAll([i \in Pairs |->
                IF Gap(i) > TicksPerSec THEN <<PairIds(i)>> ELSE <<>>])
        /\ (~\E i \in Pairs : CurrentEnd(i) > timings[i + 1].startSec) => result.valid

Wit_C8_LargeGapStillValid ==
    /\ Returned("validateTimingSync")
    /\ \E i \in Pairs : Gap(i) > TicksPerSec
    /\ CodeCount(result.warnings, "LARGE_GAP") > 0
    /\ result.valid

\* C9: validateSection returns no error and valid = TRUE for every section;
\* what it finds, it reports as warnings.
Thm_C9_SectionNeverErrors ==
    Returned("validateSection") => result.errors = <<>> /\ result.valid

\* a section that is too long and carries an unknown intent
Wit_C9_SectionWithFindings ==
    /\ Returned("validateSection")
    /\ CodeCount(result.warnings, "SECTION_TOO_LONG") = 1
    /\ CodeCount(result.warnings, "INVALID_INTENT") > 0

\* C10: exactly one SECTION_TOO_SHORT iff the text is shorter than 300,
\* exactly one SECTION_TOO_LONG iff it is longer than 600, neither from 300
\* to 600, never both.
Thm_C10_SectionLengthBand ==
    Returned("validateSection") =>
        LET n == Len(section.text.chars)
            short == CodeCount(result.warnings, "SECTION_TOO_SHORT")
            long == CodeCount(result.warnings, "SECTION_TOO_LONG")
        IN  /\ short = (IF n < 300 THEN 1 ELSE 0)
            /\ long = (IF n > 600 THEN 1 ELSE 0)
            /\ short + long <= 1

\* a text of exactly 300 or 600 characters, neither short nor long
Wit_C10_BoundaryLengthAccepted ==
    /\ Returned("validateSection")
    /\ Len(section.text.chars) \in {300, 600}
    /\ CodeCount(result.warnings, "SECTION_TOO_SHORT") = 0
    /\ CodeCount(result.warnings, "SECTION_TOO_LONG") = 0

\* the closed vocabulary of intent tags
IntentVocabulary ==
    {"summary", "procedure", "caution", "tip", "example", "intro", "conclusion"}

\* C11: the INVALID_INTENT warnings of validateSection are, in sequence
\* order, one per element of intents that is not in the vocabulary, a
\* repeated element counted each time; none when intents is absent.
Thm_C11_InvalidIntentPerElement ==
    Returned("validateSection") =>
        LET NotInVocabulary(t) == t \notin IntentVocabulary
            IsInvalidIntent(w) == w.code = "INVALID_INTENT"
            offending == IF section.intents = Undefined THEN <<>>
                         ELSE SelectSeq(section.intents.items, NotInVocabulary)
            reported == SelectSeq(result.warnings, IsInvalidIntent)
        IN  [k \in 1..Len(reported) |-> reported[k].context.intent] = offending

\* the same unknown tag twice, reported twice
Wit_C11_RepeatedUnknownIntent ==
    /\ Returned("validateSection")
    /\ section.intents # Undefined
    /\ Len(section.intents.items) = 2
    /\ section.intents.items[1] = section.intents.items[2]
    /\ section.intents.items[1] \notin IntentVocabulary
    /\ CodeCount(result.warnings, "INVALID_INTENT") = 2

----------------------------------------------------------------------------
(* validateSlideUnit called directly                                       *)

\* how many of the messages are the string m
MsgCount(m) == Cardinality({k \in 1..Len(result.items) : result.items[k] = m})

\* the names a template or a slide may use
VarNames == {"title", "bullets", "code", "subtitle"}

\* the slide's vars hold an entry for name whose value is not undefined
HasDefinedEntry(name) ==
    \E e \in 1..Len(argUnit.vars) :
        argUnit.vars[e].key = name /\ argUnit.vars[e].value # Undefined

RequiredNames == {argTemplate.vars[i] : i \in 1..Len(argTemplate.vars)}

\* C12: validateSlideUnit reports 'missing var: <name>' exactly once for each
\* name of template.vars without a defined entry in the slide's vars, and
\* never for another name, whatever the constraints and the other findings.
Thm_C12_OneMissingVarPerAbsentName ==
    Returned("validateSlideUnit") =>
        \A name \in VarNames :
            MsgCount("missing var: " \o name) =
                IF name \in RequiredNames /\ ~HasDefinedEntry(name) THEN 1 ELSE 0

\* a constrained template: one required name is explicitly undefined, the
\* other is present and breaks another rule
Wit_C12_MissingAmongOtherFindings ==
    /\ Returned("validateSlideUnit")
    /\ argTemplate.constraints # Undefined
    /\ argTemplate.vars = <<"title", "bullets">>
    /\ \E e \in 1..Len(argUnit.vars) :
            argUnit.vars[e].key = "title" /\ argUnit.vars[e].value = Undefined
    /\ MsgCount("missing var: title") = 1
    /\ MsgCount("missing var: bullets") = 0
    /\ Len(result.items) > 1

\* the slide's bullets and the three limits of the template
UnitBullets == GetVar(argUnit, "bullets")
BulletsMaxSet == argTemplate.constraints # Undefined
                    /\ argTemplate.constraints.bullets_max # Undefined
CharsPerLineMaxSet == argTemplate.constraints # Undefined
                        /\ argTemplate.constraints.chars_per_line_max # Undefined
LinesMaxSet == argTemplate.constraints # Undefined
                    /\ argTemplate.constraints.lines_max # Undefined

\* no asset of the slide has an empty or unresolved path
AssetsResolved ==
    argUnit.assets # Undefined =>
        \A i \in 1..Len(argUnit.assets.items) :
            argUnit.assets.items[i].path \notin {"", "missing://"}

TooManyBullets(n, max) ==
    "too many bullets: " \o ToString(n) \o " > " \o ToString(max)

\* C13 as claimed: with bullets_max set to any value max >= 0 and bullets a
\* sequence of length n, 'too many bullets: n > max' is reported once when
\* n > max and not at all otherwise; when no other rule can be broken (no
\* other limit set, every required name defined, every asset resolved) it is
\* the only message.
Orig_C13_TooManyBulletsIffOverMax ==
    (Returned("validateSlideUnit") /\ BulletsMaxSet /\ IsArray(UnitBullets)) =>
        LET n == Len(UnitBullets.items)
            max == argTemplate.constraints.bullets_max.num
        IN  /\ MsgCount(TooManyBullets(n, max)) = IF n > max THEN 1 ELSE 0
            /\ ( /\ n > max
                 /\ ~CharsPerLineMaxSet /\ ~LinesMaxSet
                 /\ \A name \in RequiredNames : HasDefinedEntry(name)
                 /\ AssetsResolved )
                    => result.items = <<TooManyBullets(n, max)>>

BulletTooLong(i, n, max) ==
    "bullet[" \o ToString(i) \o "] too long: " \o ToString(n) \o " > " \o ToString(max)

\* the length of a bullet that is a string; an element of another kind has
\* no character length and cannot be too long
BulletChars(b) == IF IsString(b) THEN Len(b.chars) ELSE 0

\* the lengths a bullet of the inputs may have
BulletLens == 0..5

\* C14 as claimed: with bullets_max and chars_per_line_max both set and
\* bullets a sequence, 'bullet[i] too long' is reported once for each index
\* whose bullet is longer than chars_per_line_max and for no other index;
\* with bullets_max not set no per-bullet message is reported at all.
Orig_C14_BulletTooLongPerIndex ==
    Returned("validateSlideUnit") =>
        /\ (BulletsMaxSet /\ CharsPerLineMaxSet /\ IsArray(UnitBullets)) =>
                LET max == argTemplate.constraints.chars_per_line_max.num
                IN  \A i \in 1..Len(UnitBullets.items) : \A n \in BulletLens :
                        MsgCount(BulletTooLong(i - 1, n, max)) =
                            IF n = BulletChars(UnitBullets.items[i]) /\ n > max
                            THEN 1 ELSE 0
        /\ ~BulletsMaxSet =>
                \A i \in 0..2 : \A n \in BulletLens : \A max \in {0, 3} :
                    MsgCount(BulletTooLong(i, n, max)) = 0

LineTooLong(name, k, n, max) ==
    name \o "[line " \o ToString(k) \o "] too long: " \o ToString(n) \o " > "
        \o ToString(max)

\* the lines of a string, cut at each newline, written without split: line k
\* (from 0) runs between the k-th and the (k+1)-th newline
NewlinesAt(cs) == {i \in 1..Len(cs) : cs[i] = NL}
LineCount(cs) == Cardinality(NewlinesAt(cs)) + 1
LineLen(cs, k) ==
    LET before == {i \in NewlinesAt(cs) : Cardinality({j \in NewlinesAt(cs) : j < i}) = k - 1}
        after == {i \in NewlinesAt(cs) : Cardinality({j \in NewlinesAt(cs) : j < i}) = k}
        from == IF k = 0 THEN 0 ELSE CHOOSE i \in before : TRUE
        to == IF after = {} THEN Len(cs) + 1 ELSE CHOOSE i \in after : TRUE
    IN  to - from - 1

\* the lengths a line of the inputs may have, and the line indices
LineLens == 0..5
LineIdxs == 0..1

\* C15 as claimed: with chars_per_line_max set, each string variable other
\* than code gets '<var>[line k] too long' once for each of its lines that is
\* longer than the limit and for no other line; a string variable named code
\* gets no line-length message.
Orig_C15_LineTooLongPerLine ==
    (Returned("validateSlideUnit") /\ CharsPerLineMaxSet) =>
        LET max == argTemplate.constraints.chars_per_line_max.num
        IN  \A e \in 1..Len(argUnit.vars) :
                LET name == argUnit.vars[e].key
                    value == argUnit.vars[e].value
                IN  IsString(value) =>
                        \A k \in LineIdxs : \A n \in LineLens :
                            MsgCount(LineTooLong(name, k, n, max)) =
                                IF /\ name # "code"
                                   /\ k < LineCount(value.chars)
                                   /\ n = LineLen(value.chars, k)
                                   /\ n > max
                                THEN 1 ELSE 0

TooManyLines(n, max) ==
    "too many lines: " \o ToString(n) \o " > " \o ToString(max)

\* what one variable adds to the line budget
RECURSIVE BudgetFrom(_)
BudgetFrom(entries) ==
    IF entries = <<>> THEN 0
    ELSE LET name == Head(entries).key
             value == Head(entries).value
         IN  (IF IsString(value) /\ name # "code" THEN LineCount(value.chars)
              ELSE IF IsArray(value) THEN Len(value.items)
              ELSE 0)
             + BudgetFrom(Tail(entries))

\* the totals and limits the messages of the inputs may name
Totals == 0..8

\* C16 as claimed: with lines_max set to any value max >= 0, the total is the
\* sum over the variables of the line count of a string other than code and
\* of the element count of a sequence; 'too many lines: total > max' is
\* reported once when total > max, and no 'too many lines' message is
\* reported otherwise.
Orig_C16_TooManyLinesIffOverBudget ==
    (Returned("validateSlideUnit") /\ LinesMaxSet) =>
        LET total == BudgetFrom(argUnit.vars)
            max == argTemplate.constraints.lines_max.num
        IN  \A n \in Totals :
                MsgCount(TooManyLines(n, max)) =
                    IF n = total /\ total > max THEN 1 ELSE 0

AssetMissingPath(i) == "asset[" \o ToString(i) \o "] has missing path"

\* the asset indices a message of the inputs may name
AssetIdxs == 0..3

\* C17: validateSlideUnit reports 'asset[i] has missing path' exactly once
\* for each index i whose asset has the empty path or the path 'missing://',
\* and for no other index, whatever the asset's kind and license and whether
\* or not the template has constraints.
Thm_C17_OneMessagePerUnresolvedAsset ==
    Returned("validateSlideUnit") =>
        \A i \in AssetIdxs :
            MsgCount(AssetMissingPath(i)) =
                IF /\ argUnit.assets # Undefined
                   /\ i < Len(argUnit.assets.items)
                   /\ argUnit.assets.items[i + 1].path \in {"", "missing://"}
                THEN 1 ELSE 0

\* three assets of different kinds under a constrained template: the licensed
\* video asset with the sentinel and the one with the empty path are
\* reported, the resolved one is not
Wit_C17_SentinelAndEmptyReported ==
    /\ Returned("validateSlideUnit")
    /\ argTemplate.constraints # Undefined
    /\ argUnit.assets # Undefined
    /\ Len(argUnit.assets.items) = 3
    /\ argUnit.assets.items[2].kind = "video"
    /\ argUnit.assets.items[2].license # Undefined
    /\ MsgCount(AssetMissingPath(0)) = 0
    /\ MsgCount(AssetMissingPath(1)) = 1
    /\ MsgCount(AssetMissingPath(2)) = 1

\* C19 as claimed: on a slide whose vars hold strings, sequences of elements
\* of any kind (null and non-string bullets included) or other scalars, with
\* or without assets, and on a section with or without intents, a validator
\* returns a result and does not raise.
Orig_C19_ValidatorsNeverRaise ==
    (pc = "done" /\ op \in ResultValidators \cup {"validateSlideUnit"}) =>
        result # Threw

----------------------------------------------------------------------------
(* SlideService.planSlides                                                 *)

\* the LLM's answer parsed and validateSlideSpec reported at least one error
\* for its slides
PlannedSpecsInvalid ==
    /\ response # Unparseable
    /\ ~validateSlideSpecThrows(flatMapSlides(response.specs), templates)
    /\ Len(validateSlideSpec(flatMapSlides(response.specs), templates).errors) > 0

\* C20 as claimed: slide specs for which validateSlideSpec reports an error
\* are rejected by planSlides, neither written through saveSlideSpecs nor
\* returned to the caller.
Orig_C20_InvalidSpecsRejected ==
    (pc = "done" /\ op = "planSlides" /\ PlannedSpecsInvalid) =>
        /\ savedSpecs = NoFile
        /\ result.kind # "SlideSpec[]"

----------------------------------------------------------------------------
(* validateTimingSync: which pairs are examined                            *)

\* every entry of timings has a lineId of its own
DistinctLineIds ==
    \A i, j \in 1..Len(timings) : i # j => timings[i].lineId # timings[j].lineId

\* entry i runs, with its gap, past the start of a later entry that is not
\* the next one
CollidesNonAdjacent(i, j) == j > i + 1 /\ CurrentEnd(i) > timings[j].startSec

\* C22: validateTimingSync examines the adjacent pairs of the sequence as
\* given and nothing else: no finding for a sequence of length 0 or 1, at
\* most one finding (TIMING_OVERLAP or LARGE_GAP, never both) per adjacent
\* pair, and no finding that names two entries that are not adjacent.
Thm_C22_OnlyAdjacentPairsExamined ==
    Returned("validateTimingSync") =>
        LET findings == Named(result.errors) \o Named(result.warnings)
        IN  /\ Len(timings) <= 1 =>
                /\ result.valid
                /\ result.errors = <<>>
                /\ result.warnings = <<>>
            /\ Len(findings) <= Cardinality(Pairs)
            /\ DistinctLineIds =>
                /\ \A k \in 1..Len(findings) : \E i \in Pairs : findings[k] = PairIds(i)
                /\ \A k, m \in 1..Len(findings) : k # m => findings[k] # findings[m]

\* three entries out of start order: the first runs past the start of the
\* third, no adjacent pair overlaps or gapes, and nothing is reported
Wit_C22_NonAdjacentCollisionUnreported ==
    /\ Returned("validateTimingSync")
    /\ Len(timings) = 3
    /\ DistinctLineIds
    /\ CollidesNonAdjacent(1, 3)
    /\ timings[2].startSec > timings[3].startSec
    /\ result.valid
    /\ result.errors = <<>>
    /\ result.warnings = <<>>

----------------------------------------------------------------------------
(* AudioService.generateTimings                                            *)

\* C30: the timings generateTimings produces follow the sections in list
\* order, the first starts at 0 and each next one starts at the previous
\* endSec + gapAfterSec; validateTimingSync finds them valid, with no
\* TIMING_OVERLAP and no LARGE_GAP.
Thm_C30_GeneratedTimingsAreInSync ==
    (pc = "done" /\ op = "generateTimings") =>
        LET ts == result.items
            verdict == validateTimingSync(ts)
        IN  /\ Len(ts) = Len(sections)
            /\ \A i \in 1..Len(ts) : ts[i].lineId = sections[i].id
            /\ Len(ts) > 0 => ts[1].startSec = 0
            /\ \A i \in 1..(Len(ts) - 1) :
                    ts[i + 1].startSec = ts[i].endSec + ts[i].gapAfterSec
            /\ verdict.valid
            /\ verdict.errors = <<>>
            /\ verdict.warnings = <<>>

\* three sections, listed against their order field, one of them empty
Wit_C30_ThreeSectionsChained ==
    /\ pc = "done" /\ op = "generateTimings"
    /\ Len(sections) = 3
    /\ sections[1].order > sections[2].order
    /\ \E i \in 1..3 : Len(sections[i].text.chars) = 0
    /\ \E i \in 1..3 : Len(sections[i].text.chars) = 7
    /\ result.items[3].startSec > 0
    /\ validateTimingSync(result.items).valid

----------------------------------------------------------------------------
(* ScriptService.segmentScript and the routes around it                    *)

SegmentCalls == {"segmentScript", "legacy segmentScript"}

\* the operation that ran returned a list of sections
SegmentReturned ==
    \/ op \in SegmentCalls /\ result.kind = "Section[]"
    \/ op = "POST /script/segment" /\ result.status = 200

ReturnedSections ==
    IF op = "POST /script/segment" THEN result.body.sections
    ELSE result.sections

\* C21: for an LLM segmentation response with n sections, segmentScript
\* returns n sections in response order; the i-th (from 0) has order = i and
\* scriptId = script.id whatever the response carried, so the order values
\* are exactly 0..n-1 without duplicates.
Thm_C21_OrderIsResponseIndex ==
    SegmentReturned =>
        LET out == ReturnedSections
            asked == response.sections
            n == Len(asked)
        IN  /\ Len(out) = n
            /\ \A i \in 1..n :
                /\ out[i].order = i - 1
                /\ out[i].scriptId = script.id
                /\ out[i].text = asked[i].text
            /\ {out[i].order : i \in 1..n} = 0..(n - 1)
            /\ \A i, j \in 1..n : out[i].order = out[j].order => i = j
            /\ op = "segmentScript" => sectionStore = SavedSections(out)

\* three sections returned, one of which the LLM gave an order and a
\* scriptId of its own that differ from the ones it gets
Wit_C21_AnswerCarriedItsOwnOrder ==
    /\ op = "segmentScript"
    /\ result.kind = "Section[]"
    /\ Len(result.sections) = 3
    /\ \E i \in 1..3 :
        /\ "order" \in DOMAIN response.sections[i]
        /\ "scriptId" \in DOMAIN response.sections[i]
        /\ response.sections[i].order # i - 1
        /\ response.sections[i].scriptId # script.id
        /\ result.sections[i].order = i - 1

\* C29: a segmentation of a script whose normalized_markdown is empty fails
\* with "Script must be normalized before segmentation" (the route: 400)
\* with no LLM call and no storage write; sections are only ever stored by a
\* segmentation of a script with a non-empty normalized_markdown; and
\* /slides/plan answers 404 while no sections are stored.
SegmentationNeedsNormalization ==
    /\ (op' \in SegmentCalls /\ Falsy(script'.normalized_markdown)) =>
            /\ result' = NotNormalized
            /\ llmPrompts' = <<>>
            /\ UNCHANGED <<scriptStore, sectionStore, savedSpecs>>
    /\ (/\ op' = "POST /script/segment"
        /\ scriptStore # NoFile
        /\ Falsy(scriptStore.script.normalized_markdown)) =>
            /\ result'.status = 400
            /\ result'.body = NotNormalized.message
            /\ llmPrompts' = <<>>
            /\ UNCHANGED <<scriptStore, sectionStore, savedSpecs>>
    /\ sectionStore' # sectionStore =>
            /\ op' \in {"segmentScript", "POST /script/segment"}
            /\ ~Falsy(script'.normalized_markdown)
            /\ llmPrompts' = <<"segment">>
    /\ (op' = "POST /slides/plan" /\ sectionStore = NoFile) =>
            /\ result'.status = 404
            /\ llmPrompts' = <<>>
            /\ UNCHANGED <<sectionStore, savedSpecs>>

Thm_C29_SegmentationNeverPrecedesNormalization ==
    [][SegmentationNeedsNormalization]_vars

\* the script is ingested and not yet normalized, the service was asked to
\* segment it and refused, and nothing is stored for it
Wit_C29_RefusedBeforeNormalization ==
    /\ op = "segmentScript"
    /\ scriptStore # NoFile
    /\ Falsy(scriptStore.script.normalized_markdown)
    /\ script = scriptStore.script
    /\ result = NotNormalized
    /\ llmPrompts = <<>>
    /\ sectionStore = NoFile

----------------------------------------------------------------------------
(* RenderJobService                                                        *)

\* call k arrives in this step, as a call of the given kind
ArrivesAs(k, kind) == calls[k].pc = "idle" /\ calls'[k].kind = kind

\* call k saves its update in this step
SavesUpdate(k, kind) ==
    /\ calls[k].kind = kind
    /\ calls[k].pc = "update-save"
    /\ calls'[k].pc = "returned"

StatusOf(job) == IF job = NoFile THEN "no job" ELSE job.status

\* C23: startRenderJob for an id without a job, or for a job it finds
\* running, done or failed, throws, leaves the stored job unchanged and starts
\* no render; a job is moved to "running", and executeRender launched, only by
\* a startRenderJob that found the job queued.
StartOnlyFromQueued ==
    /\ \A k \in Slots :
        /\ ArrivesAs(k, "start") =>
            IF StatusOf(jobs[calls'[k].jobId]) # "queued"
            THEN /\ calls'[k].pc = "threw"
                 /\ calls'[k].error # "none"
                 /\ UNCHANGED <<jobs, execs>>
            ELSE /\ calls'[k].pc = "update-load"
                 /\ calls'[k].loaded = jobs[JobId]
        /\ (/\ calls'[k].kind = "start"
            /\ calls[k].pc # "threw" /\ calls'[k].pc = "threw") =>
                UNCHANGED <<jobs, execs>>
        /\ SavesUpdate(k, "start") =>
            /\ StatusOf(calls[k].loaded) = "queued"
            /\ jobs'[JobId].status = "running"
            /\ execs[k].pc = "none" /\ execs'[k].pc = "check"
        /\ execs'[k].pc # execs[k].pc /\ execs[k].pc = "none" =>
                SavesUpdate(k, "start")
    /\ (jobs' # jobs /\ StatusOf(jobs'[JobId]) = "running") =>
            \E k \in Slots : SavesUpdate(k, "start")
    /\ UNCHANGED jobs[UnknownId]

CancelOnlyBeforeTheEnd ==
    \A k \in Slots :
        /\ ArrivesAs(k, "cancel") =>
            IF StatusOf(jobs[calls'[k].jobId]) \in {"queued", "running"}
            THEN calls'[k].pc = "update-load"
            ELSE /\ calls'[k].pc = "threw"
                 /\ calls'[k].error # "none"
                 /\ UNCHANGED <<jobs, execs>>
        /\ (/\ calls'[k].kind = "cancel"
            /\ calls[k].pc # "threw" /\ calls'[k].pc = "threw") =>
                UNCHANGED <<jobs, execs>>
        /\ SavesUpdate(k, "cancel") =>
            /\ StatusOf(calls[k].loaded) \in {"queued", "running"}
            /\ jobs'[JobId].status = "failed"
            /\ jobs'[JobId].error = CancelledByUser
            /\ UNCHANGED execs
        /\ (calls[k].kind = "cancel" /\ calls[k].pc = "update-load") =>
                calls'[k].pc \in {"update-load", "update-save"}

Thm_C24_CancelOnlyBeforeTheEnd == [][CancelOnlyBeforeTheEnd]_vars

\* a running job was cancelled, and a second cancel of the failed job threw
Wit_C24_CancelledThenRefused ==
    /\ calls[1].kind = "cancel" /\ calls[1].pc = "returned"
    /\ jobs[JobId].status = "failed"
    /\ jobs[JobId].error = CancelledByUser
    /\ calls[2].kind = "cancel" /\ calls[2].pc = "threw"
    /\ StatusOf(calls[2].loaded) = "failed"
    /\ calls[2].error = "Cannot cancel job"

\* C25: once the stored status of a job is "done" or "failed" it never
\* changes again, in every interleaving of the operations.
TerminalStatusKept ==
    StatusOf(jobs[JobId]) \in {"done", "failed"} =>
        jobs'[JobId].status = jobs[JobId].status

Orig_C25_TerminalStatusesAreStable == [][TerminalStatusKept]_vars

\* C26: at most one executeRender is ever launched per render job.
Orig_C26_AtMostOneRenderPerJob ==
    Cardinality({k \in Slots : execs[k].pc # "none"}) <= 1

\* C27: a job that startRenderJob has moved to "running" eventually reaches
\* "done" or "failed", every external command and storage call returning or
\* failing.
Orig_C27_RunningEventuallyEnds ==
    (StatusOf(jobs[JobId]) = "running")
        ~> (StatusOf(jobs[JobId]) \in {"done", "failed"})

\* C28: a done job has outputs and no error, a failed job has an error, a
\* queued or running job has neither outputs nor error.
Orig_C28_FieldsMatchStatus ==
    jobs[JobId] # NoFile =>
        LET job == jobs[JobId]
        IN  /\ job.status = "done" =>
                job.outputs # Undefined /\ job.error = Undefined
            /\ job.status = "failed" => job.error # Undefined
            /\ job.status \in {"queued", "running"} =>
                job.outputs = Undefined /\ job.error = Undefined
====
